---------------------------- MODULE Spec2Model ----------------------------
(***************************************************************************)
(* A model of armake2: the preprocessor (src/src/preprocess.rs), the       *)
(* rapified config codec (src/src/config.rs), the byte I/O primitives      *)
(* (src/src/io.rs), the PBO reader/writer (src/src/pbo.rs) and the BI      *)
(* signatures (src/src/sign.rs).                                           *)
(*                                                                         *)
(* Every subsystem has its own specification over its own variables; the   *)
(* variables of the other subsystems stay at their idle value.             *)
(***************************************************************************)
EXTENDS Integers, Sequences, FiniteSets, TLC

VARIABLES
    \* ---- preprocessor (preprocess / preprocess_rec) ----
    frames,          \* stack of preprocess_rec activations, innermost last
    definition_map,  \* HashMap<String, Definition>, shared by all activations
    line_origins,    \* PreprocessInfo.line_origins
    import_stack,    \* PreprocessInfo.import_stack
    pp_result,       \* "running" | "ok" | "err" | "panic": how preprocess ended
    pp_steps,        \* number of lines consumed so far (bounds the input)
    \* ---- compressed ints (io.rs) ----
    vi_x,            \* the u32 to encode
    vi_bytes,        \* the bytes write_compressed_int wrote
    vi_written,      \* the length write_compressed_int returned
    vi_len,          \* the result of compressed_int_len, 0 before the call
    vi_read,         \* the result of read_compressed_int on vi_bytes
    vi_phase,        \* "init" | "written" | "read"
    \* ---- rapified configs (config.rs) ----
    rap_config,      \* the Config given to write_rapified (its root class)
    rap_bytes,       \* the bytes Config::write_rapified produced
    rap_reread,      \* the result of Config::read_rapified on rap_bytes
    rap_phase,       \* "init" | "written" | "write_failed" | "read"
    \* ---- PBO archives and signatures (pbo.rs, sign.rs) ----
    pbo,             \* the PBO given to write: files in insertion order, extensions
    pbo_bytes,       \* the archive PBO::write produced
    pbo_reread,      \* the result of PBO::read on pbo_bytes
    pbo_phase,       \* "init" | "written" | "read"
    sg_key,          \* the private key
    sg_version,      \* the signature version, 2 or 3
    sg_signature,    \* the result of BIPrivateKey::sign on pbo_reread: st, sig
    sg_verdict,      \* the result of BIPublicKey::verify on pbo_reread
    sg_tampered,     \* pbo_bytes with one bit of a payload changed
    sg_tverdict,     \* the result of reading and verifying sg_tampered
    \* ---- warnings (error.rs) ----
    warnings_raised, \* WARNINGS_RAISED: for every name the calls counted, 0 if absent
    warnings_muted,  \* WARNINGS_MUTED: the set of the muted names
    warn_calls,      \* for every name the calls of warning() made with it
    warn_printed,    \* stderr: for every name the warnings printed, "" for unnamed
    warn_summary,    \* stderr: for every name the number the summary reported
    warn_phase,      \* "running" | "done": whether the summary has been printed
    \* ---- the binarizer shim (binarize.rs) ----
    bin_dirs,        \* the i for which the directory armake_<name>_<i> exists
    bin_tempdirs,    \* for every call of binarize the i of its tempdir, -1 if none
    bin_results,     \* for every call of binarize how it returned
    \* ---- the file system the includes are read from ----
    fs_files,        \* for every path the lines of the file, <<>> if not modelled
    \* ---- the exclude patterns of a PBO (io.rs) ----
    glob_name,       \* the name of a file of the directory packed
    glob_patterns,   \* the exclude patterns
    glob_allowed,    \* "none", or what file_allowed returned: "true", "false", "panic"
    \* ---- the start of preprocess (preprocess.rs) ----
    bom_input,       \* the bytes of the String preprocess is called with
    bom_result,      \* "none", "ok" once the byte-order mark is dealt with, "panic"
    bom_output,      \* the bytes of the String handed on to preprocess_rec
    \* ---- the location of a parser warning (Config::read) ----
    loc_preprocessed, \* the preprocessed text
    loc_line_origins, \* info.line_origins: <<line number, file>> for every line of it
    loc_warning,     \* the warning: its offset in the text, whether it is suppressed
    loc_result,      \* "none", "ok" once the location is computed, "panic"
    loc_location     \* the location handed to warning(): <<file, line>>, None if absent

ppVars  == <<frames, definition_map, line_origins, import_stack, pp_result, pp_steps>>
viVars  == <<vi_x, vi_bytes, vi_written, vi_len, vi_read, vi_phase>>
rapVars == <<rap_config, rap_bytes, rap_reread, rap_phase>>
pboVars == <<pbo, pbo_bytes, pbo_reread, pbo_phase>>
sgVars  == <<sg_key, sg_version, sg_signature, sg_verdict, sg_tampered, sg_tverdict>>
auxVars == <<warnings_raised, warnings_muted, warn_calls, warn_printed, warn_summary,
             warn_phase, bin_dirs, bin_tempdirs, bin_results, fs_files>>
fnVars  == <<glob_name, glob_patterns, glob_allowed, bom_input, bom_result, bom_output,
             loc_preprocessed, loc_line_origins, loc_warning, loc_result, loc_location>>
vars    == <<ppVars, viVars, rapVars, pboVars, sgVars, auxVars, fnVars>>

---------------------------------------------------------------------------
(* Generic helpers.                                                        *)

\* Option<T>
None    == [some |-> FALSE, v |-> <<>>]
Some(x) == [some |-> TRUE, v |-> x]
\* Option::unwrap_or_default for Option<Vec<_>>
UnwrapOrDefault(o) == IF o.some THEN o.v ELSE <<>>

RECURSIVE Flatten(_)
\* concatenation of a sequence of sequences
Flatten(ss) == IF ss = <<>> THEN <<>> ELSE Head(ss) \o Flatten(Tail(ss))

RECURSIVE SumSeq(_)
SumSeq(s) == IF s = <<>> THEN 0 ELSE Head(s) + SumSeq(Tail(s))

\* does text t carry pattern p at index i
StartsAt(t, i, p) ==
    /\ i + Len(p) - 1 <= Len(t)
    /\ \A k \in 1..Len(p) : t[i + k - 1] = p[k]

\* str::replace: every non-overlapping occurrence of p, left to right
Replace(t, p, r) ==
    LET RECURSIVE ReplaceFrom(_)
        ReplaceFrom(i) ==
            IF i > Len(t) THEN <<>>
            ELSE IF StartsAt(t, i, p) THEN r \o ReplaceFrom(i + Len(p))
            ELSE <<t[i]>> \o ReplaceFrom(i + 1)
    IN  ReplaceFrom(1)

\* number of occurrences of character c in text t
Count(t, c) == Cardinality({i \in 1..Len(t) : t[i] = c})

---------------------------------------------------------------------------
(* Preprocessor: text is a sequence of characters; the characters that the *)
(* code treats specially have names.                                       *)

LF == "lf"      \* '\n'
CR == "cr"      \* '\r'
BS == "bs"      \* '\\'
QT == "qt"      \* '"'
Whitespace == {" ", LF, CR, "tab"}

\* a trim that leaves the text as it is: C15 tells it apart
NoTrim(t) == t

\* str::trim
Trim(t) ==
    LET RECURSIVE TrimStart(_)
        TrimStart(u) == IF u # <<>> /\ Head(u) \in Whitespace THEN TrimStart(Tail(u)) ELSE u
        RECURSIVE TrimEnd(_)
        TrimEnd(u) ==
            IF u # <<>> /\ u[Len(u)] \in Whitespace
            THEN TrimEnd(SubSeq(u, 1, Len(u) - 1)) ELSE u
    IN  TrimEnd(TrimStart(t))

\* struct Macro
NoMacro == [name |-> <<>>, arguments |-> None, original |-> <<>>, quoted |-> FALSE]
Macro(name, arguments, original, quoted) ==
    [name |-> name, arguments |-> arguments, original |-> original, quoted |-> quoted]

\* enum Token
RegularToken(s)    == [t |-> "Regular", s |-> s,    n |-> 0, m |-> NoMacro]
NewlineToken(s, n) == [t |-> "Newline", s |-> s,    n |-> n, m |-> NoMacro]
MacroToken(m)      == [t |-> "Macro",   s |-> <<>>, n |-> 0, m |-> m]
CommentToken(n)    == [t |-> "Comment", s |-> <<>>, n |-> n, m |-> NoMacro]
ConcatToken        == [t |-> "Concat",  s |-> <<>>, n |-> 0, m |-> NoMacro]

\* struct Definition
Definition(name, parameters, value, local) ==
    [name |-> name, parameters |-> parameters, value |-> value, local |-> local]

\* Token::concat: (text, newlines) of a token sequence
TokenNewlines(tok) ==
    CASE tok.t = "Newline" -> tok.n
      [] tok.t = "Comment" -> tok.n
      [] OTHER             -> 0
Concat(tokens) ==
    LET TokenText(tok) ==
            CASE tok.t = "Regular" -> tok.s
              [] tok.t = "Newline" -> tok.s
              [] tok.t = "Macro"   -> tok.m.original
              [] OTHER             -> <<>>
    IN  [text     |-> Flatten([i \in 1..Len(tokens) |-> TokenText(tokens[i])]),
         newlines |-> SumSeq([i \in 1..Len(tokens) |-> TokenNewlines(tokens[i])])]


---------------------------------------------------------------------------
(* The tokenizer of the generated grammar (preprocess_grammar::tokens and  *)
(* macro_proper).  The grammar file is not part of the sources; this is    *)
(* the tokenization the data model and the tests describe: `##`, quoted    *)
(* strings and line continuations (tokens that carry newlines), potential  *)
(* macros (a name, optionally `#`-quoted, optionally with a parenthesised  *)
(* comma-separated argument list), and single regular characters.  A line  *)
(* continuation is a token that carries no newlines: preprocess_rec counts *)
(* the continuations it removes from the text of the line (the test        *)
(* test_preprocess_lineorigins has two lines with a continuation before    *)
(* the line it expects at 8).                                              *)

IdentChars ==
    {"a", "b", "c", "d", "e", "f", "g", "r", "x", "y", "z",
     "A", "D", "F", "Q", "X", "Y", "_", "1", "2"}

\* parse_macro: the Macro of the span that starts at i.  Its name is
\* t[n0..n1]; its argument list, if any, is closed at `close`.
MacroAt(t, i) ==
    LET RECURSIVE NameEnd(_)
        \* index of the last character of the identifier that starts at k
        NameEnd(k) ==
            IF k + 1 <= Len(t) /\ t[k + 1] \in IdentChars THEN NameEnd(k + 1) ELSE k
        RECURSIVE CloseParen(_, _)
        \* index of the ")" that closes the "(" whose inside starts at k, 0
        \* if none
        CloseParen(k, depth) ==
            IF k > Len(t) THEN 0
            ELSE IF t[k] = "(" THEN CloseParen(k + 1, depth + 1)
            ELSE IF t[k] = ")" THEN (IF depth = 1 THEN k ELSE CloseParen(k + 1, depth - 1))
            ELSE CloseParen(k + 1, depth)
        RECURSIVE SplitArgs(_, _, _, _)
        \* the raw arguments between the parentheses: split at top-level
        \* commas
        SplitArgs(a, k, depth, cur) ==
            IF k > Len(a) THEN <<Trim(cur)>>
            ELSE IF a[k] = "," /\ depth = 0 THEN <<Trim(cur)>> \o SplitArgs(a, k + 1, 0, <<>>)
            ELSE SplitArgs(a, k + 1,
                           depth + (IF a[k] = "(" THEN 1 ELSE IF a[k] = ")" THEN -1 ELSE 0),
                           Append(cur, a[k]))
        MacroSpan(n0, n1, close) ==
            Macro(SubSeq(t, n0, n1),
                  IF close = 0 THEN None
                  ELSE IF close = n1 + 2 THEN Some(<<>>)
                  ELSE Some(SplitArgs(SubSeq(t, n1 + 2, close - 1), 1, 0, <<>>)),
                  SubSeq(t, i, IF close = 0 THEN n1 ELSE close),
                  t[i] = "#")
        MacroNamed(n0, n1) ==
            MacroSpan(n0, n1,
                      IF n1 + 1 <= Len(t) /\ t[n1 + 1] = "("
                      THEN CloseParen(n1 + 2, 1) ELSE 0)
    IN  MacroNamed(IF t[i] = "#" THEN i + 1 ELSE i,
                   NameEnd(IF t[i] = "#" THEN i + 1 ELSE i))

RECURSIVE TokensFrom(_, _)
\* the tokens of t[i..]: the token that starts at i (and ends at j), then
\* the tokens after it
TokensFrom(t, i) ==
    LET RECURSIVE StringEnd(_)
        \* index of the quote that closes the string whose inside starts at k
        StringEnd(k) ==
            IF k > Len(t) THEN Len(t) ELSE IF t[k] = QT THEN k ELSE StringEnd(k + 1)
        MacroStartsAt ==
            \/ t[i] \in IdentChars
            \/ t[i] = "#" /\ i + 1 <= Len(t) /\ t[i + 1] \in IdentChars
        TokenThen(tok, j) == <<tok>> \o TokensFrom(t, j + 1)
        StringThen(j) ==
            TokenThen(NewlineToken(SubSeq(t, i, j), Count(SubSeq(t, i, j), LF)), j)
        MacroThen(m) == TokenThen(MacroToken(m), i + Len(m.original) - 1)
    IN  IF i > Len(t) THEN <<>>
        ELSE CASE StartsAt(t, i, <<"#", "#">>) -> TokenThen(ConcatToken, i + 1)
               [] t[i] = QT -> StringThen(StringEnd(i + 1))
               [] StartsAt(t, i, <<BS, LF>>) -> TokenThen(NewlineToken(<<BS, LF>>, 0), i + 1)
               [] t[i] # QT /\ ~StartsAt(t, i, <<"#", "#">>) /\ MacroStartsAt ->
                    MacroThen(MacroAt(t, i))
               [] OTHER -> TokenThen(RegularToken(<<t[i]>>), i)

\* preprocess_grammar::tokens
Tokens(t) == TokensFrom(t, 1)

---------------------------------------------------------------------------
(* Macro expansion: Definition::value, Macro::resolve_pseudoargs,          *)
(* Macro::resolve, Macro::resolve_all.  The functions call each other      *)
(* recursively; `fuel` is the call depth still available.  An expansion    *)
(* that would exceed it (the program's stack overflow) yields the token    *)
(* OverflowToken, which every caller passes on.                            *)

\* call depth available to one Macro::resolve_all
MaxFuel == 6

OverflowToken == [t |-> "Overflow", s |-> <<>>, n |-> 0, m |-> NoMacro]
HasOverflow(tokens) == \E i \in 1..Len(tokens) : tokens[i].t = "Overflow"

RECURSIVE ResolveAll(_, _, _, _)

\* Definition::value.  None if the numbers of parameters and arguments
\* differ; the unresolved body if the definition is on the stack; else the
\* body resolved, with every parameter bound to its expanded argument (of
\* the (param, arg) pairs that name a parameter, the last one inserted wins)
DefinitionValue(def, arguments, def_map, stack, fuel) ==
    LET params == UnwrapOrDefault(def.parameters)
        args   == UnwrapOrDefault(arguments)
        LastIndexOf(name) ==
            CHOOSE i \in 1..Len(params) :
                /\ params[i] = name
                /\ \A j \in (i + 1)..Len(params) : params[j] # name
        LocalMap(argv) ==
            [k \in (DOMAIN def_map) \cup {params[i] : i \in 1..Len(params)} |->
                IF \E i \in 1..Len(params) : params[i] = k
                THEN Definition(k, None, argv[LastIndexOf(k)], TRUE)
                ELSE def_map[k]]
        ValueWith(argv) ==
            IF \E i \in 1..Len(argv) : HasOverflow(argv[i]) THEN <<OverflowToken>>
            ELSE ResolveAll(def.value,
                            IF params # <<>> THEN LocalMap(argv) ELSE def_map,
                            Append(stack, def), fuel - 1)
    IN  IF Len(params) # Len(args) THEN None
        ELSE IF \E i \in 1..Len(stack) : stack[i].name = def.name THEN Some(def.value)
        ELSE IF fuel = 0 THEN Some(<<OverflowToken>>)
        ELSE Some(ValueWith([i \in 1..Len(params) |->
                                ResolveAll(Tokens(args[i]), def_map, <<>>, fuel - 1)]))

\* a pseudo-call that drops the parenthesised text: C14 tells it apart
PseudoargsNameOnly(m, def_map, stack, fuel) == <<RegularToken(m.name)>>

\* Macro::resolve_pseudoargs
ResolvePseudoargs(m, def_map, stack, fuel) ==
    IF ~m.arguments.some THEN <<RegularToken(m.name)>>
    ELSE IF fuel = 0 THEN <<OverflowToken>>
    ELSE <<RegularToken(m.name)>> \o
         ResolveAll(Tokens(SubSeq(m.original, Len(m.name) + 1, Len(m.original))),
                    def_map, stack, fuel - 1)

\* Macro::resolve: the value of the definition, stringified if the macro is
\* quoted; the pseudo-arguments if there is no definition of that name or
\* it has another number of parameters
MacroResolve(m, def_map, stack, fuel) ==
    LET Quoted(tokens) ==
            IF HasOverflow(tokens) THEN <<OverflowToken>>
            ELSE <<NewlineToken(<<QT>> \o Trim(Concat(tokens).text) \o <<QT>>,
                                Concat(tokens).newlines)>>
        ResolveWith(value) ==
            IF value.some THEN (IF m.quoted THEN Quoted(value.v) ELSE value.v)
            ELSE ResolvePseudoargs(m, def_map, stack, fuel)
    IN  ResolveWith(IF m.name \in DOMAIN def_map
                    THEN DefinitionValue(def_map[m.name], m.arguments, def_map, stack, fuel)
                    ELSE None)

\* Macro::resolve_all
ResolveAll(tokens, def_map, stack, fuel) ==
    IF tokens = <<>> THEN <<>>
    ELSE (IF Head(tokens).t = "Macro"
          THEN MacroResolve(Head(tokens).m, def_map, stack, fuel)
          ELSE <<Head(tokens)>>)
         \o ResolveAll(Tail(tokens), def_map, stack, fuel)

---------------------------------------------------------------------------
(* preprocess_rec as a state machine.  One action consumes one Line of the *)
(* file the innermost activation is reading; the file's lines are chosen   *)
(* as they are consumed, so every file content (up to the bound on the     *)
(* number of lines) is covered.  An activation is a record of the locals   *)
(* of preprocess_rec; `log` records, for every line it consumed, what the  *)
(* activation saw and did (it is an observation, nothing reads it back).   *)

\* enum Directive: kind is the variant (IncludeDirective, DefineDirective,
\* UndefDirective, IfDefDirective, IfNDefDirective, ElseDirective,
\* EndIfDirective), name the macro name it carries, def the Definition
NoDef == Definition(<<>>, None, <<>>, FALSE)
Directive(kind, name, def) == [kind |-> kind, name |-> name, def |-> def]
\* enum Line
DirectiveLine(dir, newlines) ==
    [kind |-> dir.kind, name |-> dir.name, def |-> dir.def, newlines |-> newlines,
     tokens |-> <<>>]
TokenLine(tokens) ==
    [kind |-> "TokenLine", name |-> <<>>, def |-> NoDef, newlines |-> 0, tokens |-> tokens]

\* a fresh activation of preprocess_rec reading the file `origin`
NewFrame(origin) ==
    [origin |-> origin, output |-> <<>>, original_lineno |-> 1,
     level |-> 0, level_true |-> 0, log |-> <<>>]

Top == frames[Len(frames)]
SetTop(f) == [frames EXCEPT ![Len(frames)] = f]

\* what the activation saw (the line, the definitions in effect, whether the
\* line's name was defined, the counters before the line) and did (the text
\* of the output line it emitted, if it emitted one)
LoggedText(f, line, emitted, text) ==
    Append(f.log, [line |-> line, defs |-> definition_map,
                   defined |-> line.name \in DOMAIN definition_map,
                   level |-> f.level, level_true |-> f.level_true,
                   lineno |-> f.original_lineno, emitted |-> emitted, text |-> text])
Logged(f, line, emitted) == LoggedText(f, line, emitted, <<>>)

\* a preprocessor that skips nothing: C25 tells it apart
SkippedNever(f) == FALSE

\* `if level > level_true { continue; }`
Skipped(f) == f.level > f.level_true

\* a faulty #else, which never selects the second branch: C1 tells it apart
ElseNeverSelects(level, level_true) ==
    IF level_true = level THEN level_true - 1 ELSE level_true

\* #else: the new level_true
ElseLevelTrue(level, level_true) ==
    IF level_true + 1 = level THEN level
    ELSE IF level_true = level THEN level_true - 1
    ELSE level_true

\* the sum over the tokens of a #define body of the newlines they carry
DefineNewlines(def) == SumSeq([i \in 1..Len(def.value) |-> TokenNewlines(def.value[i])])

Running == pp_result = "running"

\* the deepest nesting of #include the model follows
MaxInclude == 1

\* Directive::IncludeDirective: skipped, or the file is not found or not
\* read, or the file found (file_path) is pushed on the import stack and
\* preprocessed by a nested activation; the model follows the includes to
\* the nesting `depth`
IncludeFile(line, file_path, depth) ==
    /\ Running /\ line.kind = "IncludeDirective"
    /\ LET f1 == [Top EXCEPT !.original_lineno = @ + line.newlines] IN
       IF Skipped(Top) THEN
           /\ frames' = SetTop([f1 EXCEPT !.log = Logged(Top, line, FALSE)])
           /\ UNCHANGED <<import_stack, pp_result>>
       ELSE
           \/ /\ pp_result' = "err"
              /\ UNCHANGED <<frames, import_stack>>
           \/ /\ Len(frames) <= depth
              /\ frames' = Append(SetTop([f1 EXCEPT !.log = Logged(Top, line, FALSE)]),
                                  NewFrame(file_path))
              /\ import_stack' = Append(import_stack, file_path)
              /\ UNCHANGED pp_result
    /\ pp_steps' = pp_steps + 1
    /\ UNCHANGED <<definition_map, line_origins, viVars, rapVars, pboVars, sgVars, auxVars, fnVars>>

\* an #include of files that include nothing the import stack holds: the
\* file found at include depth d is file d
Include(line) == IncludeFile(line, Len(frames), MaxInclude)

\* the end of the file: preprocess_rec returns Ok(output); the including
\* activation appends it and finishes its line, the outermost one ends
\* preprocess
Return ==
    /\ Running
    /\ IF Len(frames) > 1 THEN
           LET parent == frames[Len(frames) - 1] IN
           /\ frames' = [i \in 1..(Len(frames) - 1) |->
                            IF i = Len(frames) - 1
                            THEN [parent EXCEPT !.output = @ \o Top.output,
                                                !.original_lineno = @ + 1]
                            ELSE frames[i]]
           /\ import_stack' = SubSeq(import_stack, 1, Len(import_stack) - 1)
           /\ UNCHANGED pp_result
       ELSE
           /\ pp_result' = "ok"
           /\ UNCHANGED <<frames, import_stack>>
    /\ UNCHANGED <<definition_map, line_origins, pp_steps, viVars, rapVars, pboVars, sgVars, auxVars, fnVars>>

\* Directive::DefineDirective
Define(line) ==
    /\ Running /\ line.kind = "DefineDirective"
    /\ LET f1 == [Top EXCEPT !.original_lineno = @ + line.newlines + DefineNewlines(line.def),
                             !.log = Logged(Top, line, FALSE)] IN
       IF Skipped(Top) THEN
           /\ frames' = SetTop(f1)
           /\ UNCHANGED definition_map
       ELSE
           /\ frames' = SetTop([f1 EXCEPT !.original_lineno = @ + 1])
           /\ definition_map' =
                [k \in (DOMAIN definition_map) \cup {line.def.name} |->
                    IF k = line.def.name THEN line.def ELSE definition_map[k]]
    /\ pp_steps' = pp_steps + 1
    /\ UNCHANGED <<line_origins, import_stack, pp_result, viVars, rapVars, pboVars, sgVars, auxVars, fnVars>>

\* Directive::UndefDirective
Undef(line) ==
    /\ Running /\ line.kind = "UndefDirective"
    /\ LET f1 == [Top EXCEPT !.original_lineno = @ + line.newlines,
                             !.log = Logged(Top, line, FALSE)] IN
       IF Skipped(Top) THEN
           /\ frames' = SetTop(f1)
           /\ UNCHANGED definition_map
       ELSE
           /\ frames' = SetTop([f1 EXCEPT !.original_lineno = @ + 1])
           /\ definition_map' =
                [k \in (DOMAIN definition_map) \ {line.name} |-> definition_map[k]]
    /\ pp_steps' = pp_steps + 1
    /\ UNCHANGED <<line_origins, import_stack, pp_result, viVars, rapVars, pboVars, sgVars, auxVars, fnVars>>

\* Directive::IfDefDirective
IfDef(line) ==
    /\ Running /\ line.kind = "IfDefDirective"
    /\ frames' = SetTop([Top EXCEPT
            !.level_true = @ + (IF Top.level_true = Top.level /\
                                       line.name \in DOMAIN definition_map
                                    THEN 1 ELSE 0),
            !.level = @ + 1,
            !.original_lineno = @ + line.newlines + 1,
            !.log = Logged(Top, line, FALSE)])
    /\ pp_steps' = pp_steps + 1
    /\ UNCHANGED <<definition_map, line_origins, import_stack, pp_result, viVars, rapVars, pboVars, sgVars, auxVars, fnVars>>

\* Directive::IfNDefDirective
IfNDef(line) ==
    /\ Running /\ line.kind = "IfNDefDirective"
    /\ frames' = SetTop([Top EXCEPT
            !.level_true = @ + (IF Top.level_true = Top.level /\
                                       line.name \notin DOMAIN definition_map
                                    THEN 1 ELSE 0),
            !.level = @ + 1,
            !.original_lineno = @ + line.newlines + 1,
            !.log = Logged(Top, line, FALSE)])
    /\ pp_steps' = pp_steps + 1
    /\ UNCHANGED <<definition_map, line_origins, import_stack, pp_result, viVars, rapVars, pboVars, sgVars, auxVars, fnVars>>

\* Directive::ElseDirective
Else(line) ==
    /\ Running /\ line.kind = "ElseDirective"
    /\ frames' = SetTop([Top EXCEPT
            !.level_true = ElseLevelTrue(Top.level, Top.level_true),
            !.original_lineno = @ + line.newlines + 1,
            !.log = Logged(Top, line, FALSE)])
    /\ pp_steps' = pp_steps + 1
    /\ UNCHANGED <<definition_map, line_origins, import_stack, pp_result, viVars, rapVars, pboVars, sgVars, auxVars, fnVars>>

\* Directive::EndIfDirective: assert!(level > 0) panics without an open conditional
EndIf(line) ==
    /\ Running /\ line.kind = "EndIfDirective"
    /\ IF Top.level > 0 THEN
           /\ frames' = SetTop([Top EXCEPT
                   !.level = @ - 1,
                   !.level_true = IF @ > Top.level - 1 THEN @ - 1 ELSE @,
                   !.original_lineno = @ + line.newlines + 1,
                   !.log = Logged(Top, line, FALSE)])
           /\ UNCHANGED pp_result
       ELSE
           /\ pp_result' = "panic"
           /\ UNCHANGED frames
    /\ pp_steps' = pp_steps + 1
    /\ UNCHANGED <<definition_map, line_origins, import_stack, viVars, rapVars, pboVars, sgVars, auxVars, fnVars>>

\* Line::TokenLine: the macros of the line are resolved to the text r, which
\* is emitted unless the line is skipped.  LineText is the text a token
\* line contributes: the concatenation c of its tokens with CRLF normalised
\* (`result`), then the line continuations removed; `cont` is the number of
\* continuations removed
Tokenline(line) ==
    LET LineText(resolved) ==
            LET Joined(result, newlines) ==
                    [text |-> Replace(result, <<BS, LF>>, <<>>), newlines |-> newlines,
                     cont |-> (Len(result) - Len(Replace(result, <<BS, LF>>, <<>>))) \div 2]
                Concatted(c) == Joined(Replace(c.text, <<CR, LF>>, <<LF>>), c.newlines)
            IN  Concatted(Concat(resolved))
        EmitLine(r) ==
            IF Skipped(Top) THEN
                /\ frames' = SetTop([Top EXCEPT !.original_lineno = @ + r.newlines,
                                                !.log = Logged(Top, line, FALSE)])
                /\ UNCHANGED <<line_origins, pp_result>>
            ELSE
                /\ frames' = SetTop([Top EXCEPT
                        !.output = @ \o r.text \o <<LF>>,
                        !.original_lineno = @ + r.newlines + r.cont + 1,
                        !.log = LoggedText(Top, line, TRUE, r.text)])
                /\ line_origins' = Append(line_origins,
                                          <<Top.original_lineno + r.newlines, Top.origin>>)
                /\ UNCHANGED pp_result
        ResolvedLine(resolved) ==
            IF HasOverflow(resolved) THEN
                /\ pp_result' = "overflow"
                /\ UNCHANGED <<frames, line_origins>>
            ELSE EmitLine(LineText(resolved))
    IN  /\ Running /\ line.kind = "TokenLine"
        /\ ResolvedLine(ResolveAll(line.tokens, definition_map, <<>>, MaxFuel))
        /\ pp_steps' = pp_steps + 1
        /\ UNCHANGED <<definition_map, import_stack, viVars, rapVars, pboVars, sgVars, auxVars, fnVars>>

---------------------------------------------------------------------------
(* Idle values of the subsystems a specification does not exercise.        *)

IdlePP ==
    /\ frames = <<>> /\ definition_map = <<>> /\ line_origins = <<>>
    /\ import_stack = <<>> /\ pp_result = "idle" /\ pp_steps = 0
IdleVI ==
    /\ vi_x = {} /\ vi_bytes = <<>> /\ vi_written = 0 /\ vi_len = 0 /\ vi_read = <<>>
    /\ vi_phase = "idle"
IdleRap ==
    /\ rap_config = <<>> /\ rap_bytes = <<>> /\ rap_reread = <<>> /\ rap_phase = "idle"
IdlePbo ==
    /\ pbo = <<>> /\ pbo_bytes = <<>> /\ pbo_reread = <<>> /\ pbo_phase = "idle"
IdleSg ==
    /\ sg_key = <<>> /\ sg_version = 0
    /\ sg_signature = [st |-> "none", sig |-> <<>>] /\ sg_verdict = "none"
    /\ sg_tampered = <<>> /\ sg_tverdict = "none"

IdleFn ==
    /\ glob_name = <<>> /\ glob_patterns = <<>> /\ glob_allowed = "none"
    /\ bom_input = <<>> /\ bom_result = "none" /\ bom_output = <<>>
    /\ loc_preprocessed = <<>> /\ loc_line_origins = <<>> /\ loc_warning = <<>>
    /\ loc_result = "none" /\ loc_location = <<>>

IdleAux ==
    /\ IdleFn
    /\ warnings_raised = <<>> /\ warnings_muted = {} /\ warn_calls = <<>>
    /\ warn_printed = <<>> /\ warn_summary = <<>> /\ warn_phase = "idle"
    /\ bin_dirs = {} /\ bin_tempdirs = <<>> /\ bin_results = <<>> /\ fs_files = <<>>

---------------------------------------------------------------------------
(* Specification SpecCond: preprocess on files of conditional directives,  *)
(* #define/#undef of one name, ordinary lines and includes.                *)

\* preprocess: the state in which it calls preprocess_rec on the input,
\* whose origin (file 0) is on the import stack
InitPP ==
    /\ frames = <<NewFrame(0)>>
    /\ definition_map = <<>>
    /\ line_origins = <<>>
    /\ import_stack = <<0>>
    /\ pp_result = "running"
    /\ pp_steps = 0
    /\ IdleVI /\ IdleRap /\ IdlePbo /\ IdleSg /\ IdleAux

\* the number of lines a run of SpecCond consumes
MaxCondLines == 4

\* the lines of the files: conditionals on the macro A, its #define and
\* #undef, the ordinary line `a`, an #include
CondLines ==
    {DirectiveLine(Directive("IfDefDirective", <<"A">>, NoDef), 0),
     DirectiveLine(Directive("IfNDefDirective", <<"A">>, NoDef), 0),
     DirectiveLine(Directive("ElseDirective", <<>>, NoDef), 0),
     DirectiveLine(Directive("EndIfDirective", <<>>, NoDef), 0),
     DirectiveLine(Directive("DefineDirective", <<"A">>,
                             Definition(<<"A">>, None, <<>>, FALSE)), 0),
     DirectiveLine(Directive("UndefDirective", <<"A">>, NoDef), 0),
     TokenLine(<<RegularToken(<<"a">>)>>),
     DirectiveLine(Directive("IncludeDirective", <<>>, NoDef), 0)}

\* the file has another line as long as the bound allows
More(bound) == pp_steps < bound

NextCond ==
    \/ \E line \in CondLines : More(MaxCondLines) /\ Include(line)
    \/ \E line \in CondLines : More(MaxCondLines) /\ Define(line)
    \/ \E line \in CondLines : More(MaxCondLines) /\ Undef(line)
    \/ \E line \in CondLines : More(MaxCondLines) /\ IfDef(line)
    \/ \E line \in CondLines : More(MaxCondLines) /\ IfNDef(line)
    \/ \E line \in CondLines : More(MaxCondLines) /\ Else(line)
    \/ \E line \in CondLines : More(MaxCondLines) /\ EndIf(line)
    \/ \E line \in CondLines : More(MaxCondLines) /\ Tokenline(line)
    \/ Return

SpecCond == InitPP /\ [][NextCond]_vars

\* The conditional structure of the first k lines of a log, read as the
\* spec reads it: a stack with one entry per open conditional, `sel` telling
\* whether the branch the text is in is the selected one (the condition,
\* evaluated when the #ifdef/#ifndef was reached, for the first branch; its
\* negation after #else).  `proper` is FALSE once an #else or #endif had no
\* open conditional or a conditional had a second #else.
RECURSIVE Nest(_, _)
Nest(log, k) ==
    IF k = 0 THEN [proper |-> TRUE, st |-> <<>>]
    ELSE
        LET prev == Nest(log, k - 1)
            e    == log[k]
            st   == prev.st
            n    == Len(st)
        IN  IF ~prev.proper THEN prev
            ELSE CASE e.line.kind = "IfDefDirective" ->
                        [proper |-> TRUE, st |-> Append(st, [sel |-> e.defined, else |-> FALSE])]
                   [] e.line.kind = "IfNDefDirective" ->
                        [proper |-> TRUE, st |-> Append(st, [sel |-> ~e.defined, else |-> FALSE])]
                   [] e.line.kind = "ElseDirective" ->
                        IF n = 0 \/ st[n].else THEN [proper |-> FALSE, st |-> st]
                        ELSE [proper |-> TRUE,
                              st |-> [st EXCEPT ![n] = [sel |-> ~st[n].sel, else |-> TRUE]]]
                   [] e.line.kind = "EndIfDirective" ->
                        IF n = 0 THEN [proper |-> FALSE, st |-> st]
                        ELSE [proper |-> TRUE, st |-> SubSeq(st, 1, n - 1)]
                   [] OTHER -> prev

AllSelected(st) == \A i \in 1..Len(st) : st[i].sel

\* the claim for one logged line e, given the conditionals n around it
EmittedIffSelected(e, n) ==
    (e.line.kind = "TokenLine" /\ n.proper) =>
        /\ e.emitted <=> AllSelected(n.st)
        /\ e.emitted <=> (e.level = e.level_true)

\* C1: in a properly nested file, an ordinary line is emitted exactly when
\* every conditional that encloses it has the branch the line is in selected
\* (the condition as evaluated when the #ifdef/#ifndef was reached), which is
\* exactly when level = level_true at that line.
C1_ConditionalSkip ==
    \A d \in 1..Len(frames) : \A k \in 1..Len(frames[d].log) :
        EmittedIffSelected(frames[d].log[k], Nest(frames[d].log, k - 1))

EmittedInNestedElse(e, n) ==
    /\ e.line.kind = "TokenLine" /\ n.proper /\ e.emitted
    /\ Len(n.st) = 2 /\ n.st[2].else

\* an ordinary line emitted in the #else branch of a conditional that is
\* nested in another conditional
C1_Witness ==
    \E d \in 1..Len(frames) : \E k \in 1..Len(frames[d].log) :
        EmittedInNestedElse(frames[d].log[k], Nest(frames[d].log, k - 1))

---------------------------------------------------------------------------
(* Specification SpecText: preprocess on files whose lines carry macros,   *)
(* strings that span lines, line continuations and stringified arguments.  *)

\* the number of lines a run of SpecText consumes
MaxTextLines == 3

\* #define X X y
DefX == Definition(<<"X">>, None, Tokens(<<"X", " ", "y">>), FALSE)
\* the line `X`
LineX == TokenLine(Tokens(<<"X">>))
\* the line `"a<LF>b"`: a string that spans two physical lines
LineString == TokenLine(Tokens(<<QT, "a", LF, "b", QT>>))

\* the lines of the files: #define X X y, #define Q(x) #x, #define F(x) x,
\* #define A F(A), #define Y "t"/* c<LF><LF>d */ (a body with a comment
\* that spans three physical lines), the lines `X`, `"a<LF>b"`, `a\<LF>b`,
\* `Q(X)` and `A`, an #include, #ifdef X, #else, #endif
TextLines ==
    {DirectiveLine(Directive("DefineDirective", DefX.name, DefX), 0),
     DirectiveLine(Directive("DefineDirective", <<"Y">>,
        Definition(<<"Y">>, None, Tokens(<<QT, "t", QT>>) \o <<CommentToken(2)>>, FALSE)), 0),
     DirectiveLine(Directive("DefineDirective", <<"Q">>,
        Definition(<<"Q">>, Some(<< <<"x">> >>), Tokens(<<"#", "x">>), FALSE)), 0),
     DirectiveLine(Directive("DefineDirective", <<"F">>,
        Definition(<<"F">>, Some(<< <<"x">> >>), Tokens(<<"x">>), FALSE)), 0),
     DirectiveLine(Directive("DefineDirective", <<"A">>,
        Definition(<<"A">>, None, Tokens(<<"F", "(", "A", ")">>), FALSE)), 0),
     LineX, LineString,
     TokenLine(Tokens(<<"a", BS, LF, "b">>)),
     TokenLine(Tokens(<<"Q", "(", "X", ")">>)),
     TokenLine(Tokens(<<"A">>)),
     DirectiveLine(Directive("IncludeDirective", <<>>, NoDef), 0),
     DirectiveLine(Directive("IfDefDirective", <<"X">>, NoDef), 0),
     DirectiveLine(Directive("ElseDirective", <<>>, NoDef), 0),
     DirectiveLine(Directive("EndIfDirective", <<>>, NoDef), 0)}

NextText ==
    \/ \E line \in TextLines : More(MaxTextLines) /\ Include(line)
    \/ \E line \in TextLines : More(MaxTextLines) /\ Define(line)
    \/ \E line \in TextLines : More(MaxTextLines) /\ IfDef(line)
    \/ \E line \in TextLines : More(MaxTextLines) /\ Else(line)
    \/ \E line \in TextLines : More(MaxTextLines) /\ EndIf(line)
    \/ \E line \in TextLines : More(MaxTextLines) /\ Tokenline(line)
    \/ Return

SpecText == InitPP /\ [][NextText]_vars

\* the line `X` was emitted while `#define X X y` was in effect
SelfRecursiveUse(e) ==
    /\ e.line = LineX /\ e.emitted
    /\ DefX.name \in DOMAIN e.defs /\ e.defs[DefX.name] = DefX

\* C2: with `#define X X y` in effect, the line `X` yields exactly the text
\* `X y`.
C2_SelfRecursion ==
    \A d \in 1..Len(frames) : \A k \in 1..Len(frames[d].log) :
        SelfRecursiveUse(frames[d].log[k]) => frames[d].log[k].text = <<"X", " ", "y">>

\* the line `X` was preprocessed with `#define X X y` in effect
C2_Witness ==
    \E d \in 1..Len(frames) : \E k \in 1..Len(frames[d].log) :
        SelfRecursiveUse(frames[d].log[k])

\* C3: after a successful preprocess, line_origins has as many entries as
\* the returned output has newline characters.
C3_LineOriginsCount ==
    pp_result = "ok" => Len(line_origins) = Count(frames[1].output, LF)

\* a successful preprocess whose output has a line that came from an
\* included file and a line that holds a string spanning two lines
C3_Witness ==
    /\ pp_result = "ok"
    /\ \E i \in 1..Len(line_origins) : line_origins[i][2] # 0
    /\ \E k \in 1..Len(frames[1].log) : frames[1].log[k].line = LineString /\ frames[1].log[k].emitted

\* the number of physical lines a line of a file occupies
PhysicalLines(line) ==
    1 + (IF line.kind = "TokenLine"
         THEN Count(Concat(line.tokens).text, LF) +
              SumSeq([i \in 1..Len(line.tokens) |->
                         IF line.tokens[i].t = "Comment" THEN line.tokens[i].n ELSE 0])
         ELSE line.newlines + DefineNewlines(line.def))

\* the physical line at which the k-th line of a log begins
BeginsAt(log, k) == 1 + SumSeq([j \in 1..(k - 1) |-> PhysicalLines(log[j].line)])

\* C16: every entry (n, f) of line_origins describes its output line
\* truthfully: f is the file the text of the line came from and n the
\* physical line of f at which the logical line begins, the #define lines
\* (with the comments in their bodies), the continuations of earlier lines
\* and the #include directives before it having advanced the counter by
\* the physical lines they occupy.  The entry is looked at when it is
\* pushed: when the activation that reads file f has just emitted a line.
C16_TruthfulOrigins ==
    LET log == Top.log IN
    log # <<>> /\ log[Len(log)].emitted =>
        /\ line_origins # <<>>
        /\ line_origins[Len(line_origins)] = <<BeginsAt(log, Len(log)), Top.origin>>

\* the line `"a<LF>b"`, which spans two physical lines, has been emitted
\* in the included file after a #define with a comment in its body
C16_Witness ==
    /\ Len(frames) = 2 /\ Len(Top.log) = 2
    /\ Top.log[1].line.kind = "DefineDirective" /\ DefineNewlines(Top.log[1].line.def) = 2
    /\ Top.log[2].line = LineString /\ Top.log[2].emitted
    /\ line_origins[Len(line_origins)][2] = Top.origin

\* C17: a line inside a skipped conditional region (an ordinary line, a
\* skipped #define, #undef or #include) produces no output line but
\* advances the original line counter by the physical lines it occupies, so
\* that the lines emitted after the region have their true line numbers as
\* origins.
C17_SkippedLinesCounted ==
    \A d \in 1..Len(frames) : \A k \in 1..Len(frames[d].log) :
        LET log == frames[d].log
            after == IF k < Len(log) THEN log[k + 1].lineno ELSE frames[d].original_lineno
        IN  /\ log[k].level > log[k].level_true
            /\ log[k].line.kind \in {"TokenLine", "DefineDirective", "UndefDirective",
                                     "IncludeDirective"}
            => /\ ~log[k].emitted
               /\ after = log[k].lineno + PhysicalLines(log[k].line)

\* a line has been emitted after a skipped region that holds an ordinary
\* line
C17_Witness ==
    \E j, k \in 1..Len(frames[1].log) :
        /\ j < k
        /\ frames[1].log[j].line.kind = "TokenLine" /\ ~frames[1].log[j].emitted
        /\ frames[1].log[k].line.kind = "TokenLine" /\ frames[1].log[k].emitted
        /\ line_origins # <<>>

\* C20: preprocessing an input in which an #ifdef or #ifndef is still open
\* at the end of the file (level > 0 after the last line) returns an error
\* instead of a successful result.
C20_UnterminatedConditional ==
    pp_result = "ok" => frames[1].level = 0

\* the end of a file has been reached with a conditional open
C20_Witness ==
    /\ pp_result = "ok" /\ pp_steps > 0
    /\ frames[1].level > 0
    /\ frames[1].log[Len(frames[1].log)].line.kind \in {"IfDefDirective", "IfNDefDirective"}

\* C29: Macro::resolve_all terminates for every definition map and every
\* token line, definitions that refer to themselves through a macro
\* argument included (`#define F(x) x` with `#define A F(A)`): the nesting
\* of the calls stays bounded, so the call stack is never exhausted.
C29_ResolveAllTerminates ==
    pp_result # "overflow"

\* the line `A` has been reached with `#define F(x) x` and `#define A F(A)`
\* in effect, and its macros have been resolved
C29_Witness ==
    /\ \/ pp_result = "overflow"
       \/ /\ Top.log # <<>>
          /\ Top.log[Len(Top.log)].line = TokenLine(Tokens(<<"A">>))
          /\ Top.log[Len(Top.log)].emitted
    /\ {<<"A">>, <<"F">>} \subseteq DOMAIN definition_map
    /\ definition_map[<<"A">>].value = Tokens(<<"F", "(", "A", ")">>)
    /\ definition_map[<<"F">>].parameters = Some(<< <<"x">> >>)
    /\ pp_steps = MaxTextLines

\* C25: a #define, #undef or #include directive that lies in a skipped
\* conditional region (level > level_true) leaves the definition map, the
\* import stack, the output text and line_origins unchanged and starts no
\* nested activation; the #ifdef, #ifndef, #else and #endif of a skipped
\* region leave them unchanged as well, and only they change the counters
\* level and level_true.
C25_SkippedDirectives ==
    [][(/\ pp_result = "running" /\ pp_steps' = pp_steps + 1
        /\ Top.level > Top.level_true)
       => /\ definition_map' = definition_map
          /\ import_stack' = import_stack
          /\ line_origins' = line_origins
          /\ Len(frames') = Len(frames)
          /\ frames'[Len(frames')].output = Top.output
          /\ pp_result' = "running" =>
                LET after == frames'[Len(frames')]
                    line  == after.log[Len(after.log)].line
                IN  /\ Len(after.log) = Len(Top.log) + 1
                    /\ line.kind \in {"DefineDirective", "UndefDirective",
                                      "IncludeDirective", "TokenLine"}
                        => after.level = Top.level /\ after.level_true = Top.level_true
    ]_vars

\* a #define, an #undef and an #include have been passed in a skipped
\* region
C25_Witness ==
    /\ pp_result = "running" /\ Len(frames) = 1
    /\ \A kind \in {"DefineDirective", "UndefDirective", "IncludeDirective"} :
          \E k \in 1..Len(Top.log) :
              /\ Top.log[k].line.kind = kind
              /\ Top.log[k].level > Top.log[k].level_true
    /\ definition_map = <<>> /\ import_stack = <<0>> /\ Top.output = <<>>

\* C28: within one activation of preprocess_rec, after any sequence of
\* #ifdef, #ifndef, #else and #endif (properly nested or not, an #else or
\* #endif with no open conditional included), 0 <= level_true <= level
\* holds and the assertion level > 0 at #endif does not fail.
C28_LevelCounters ==
    /\ pp_result # "panic"
    /\ \A d \in 1..Len(frames) :
          0 <= frames[d].level_true /\ frames[d].level_true <= frames[d].level

\* an #else or an #endif has been reached with no conditional open
C28_Witness ==
    \/ pp_result = "panic"
    \/ \E d \in 1..Len(frames) : \E k \in 1..Len(frames[d].log) :
          /\ frames[d].log[k].line.kind = "ElseDirective"
          /\ frames[d].log[k].level = 0

---------------------------------------------------------------------------
(* Specification SpecInclude: preprocess on a file system of two files     *)
(* that hold ordinary lines and #include directives naming the two files,  *)
(* the first file being the input.  An activation reads the lines of its   *)
(* file in their order; its log tells how many it has read.                *)

\* the deepest nesting of #include the model follows in SpecInclude
MaxDepth == 3

\* the lines a file of SpecInclude has at most
MaxFileLines == 2

\* preprocess is called on file 0 of a file system
InitInc ==
    LET Lines == {TokenLine(<<RegularToken(<<"a">>)>>),
                  DirectiveLine(Directive("IncludeDirective", <<"0">>, NoDef), 0),
                  DirectiveLine(Directive("IncludeDirective", <<"1">>, NoDef), 0)}
        Contents == UNION {[1..n -> Lines] : n \in 1..MaxFileLines}
    IN  /\ fs_files \in [0..1 -> Contents]
        /\ frames = <<NewFrame(0)>>
        /\ definition_map = <<>>
        /\ line_origins = <<>>
        /\ import_stack = <<0>>
        /\ pp_result = "running"
        /\ pp_steps = 0
        /\ warnings_raised = <<>> /\ warnings_muted = {} /\ warn_calls = <<>>
        /\ warn_printed = <<>> /\ warn_summary = <<>> /\ warn_phase = "idle"
        /\ bin_dirs = {} /\ bin_tempdirs = <<>> /\ bin_results = <<>>
        /\ IdleVI /\ IdleRap /\ IdlePbo /\ IdleSg /\ IdleFn

\* the activation on top reads the next line of its file, or returns at the
\* end of the file; find_include_file finds file 0 for the path "0" and
\* file 1 for the path "1"
NextInc ==
    LET file == fs_files[Top.origin]
        k    == Len(Top.log) + 1
        FindIncludeFile(path) == IF path = <<"0">> THEN 0 ELSE 1
    IN  \/ /\ k <= Len(file)
           /\ IncludeFile(file[k], FindIncludeFile(file[k].name), MaxDepth)
        \/ /\ k <= Len(file)
           /\ Tokenline(file[k])
        \/ /\ k > Len(file)
           /\ Return

SpecInclude == InitInc /\ [][NextInc]_vars

\* C21: when an #include resolves to a path that is already on the import
\* stack (a file that includes itself, directly or through other files), the
\* preprocessor detects it from the import stack and ends with a diagnosis
\* instead of recursing: no nested activation is started for a file that is
\* on the import stack, so no path is on the import stack twice.
C21_IncludeCycleDiagnosed ==
    \A i, j \in 1..Len(import_stack) : import_stack[i] = import_stack[j] => i = j

\* file 0 includes file 1, which includes file 0, which is being
\* preprocessed again by a nested activation of a nested activation
C21_Witness ==
    /\ pp_result = "running"
    /\ Len(import_stack) >= 3
    /\ import_stack[1] = 0 /\ import_stack[2] = 1 /\ import_stack[3] = 0
    /\ Len(frames) = Len(import_stack)

---------------------------------------------------------------------------
(* Specification SpecMacro: preprocess on files of macro definitions and   *)
(* of lines that invoke them, with the right and with another number of    *)
(* arguments.                                                              *)

\* the number of lines a run of SpecMacro consumes
MaxMacroLines == 3

\* the definitions of the files: #define F(x) x, #define Q(x) #x,
\* #define D(a,b) a##_##b, #define Y y
MacroDefs ==
    [F |-> Definition(<<"F">>, Some(<< <<"x">> >>), Tokens(<<"x">>), FALSE),
     Q |-> Definition(<<"Q">>, Some(<< <<"x">> >>), Tokens(<<"#", "x">>), FALSE),
     D |-> Definition(<<"D">>, Some(<< <<"a">>, <<"b">> >>),
                      Tokens(<<"a", "#", "#", "_", "#", "#", "b">>), FALSE),
     Y |-> Definition(<<"Y">>, None, Tokens(<<"y">>), FALSE)]

\* the ordinary lines of the files: `Y(F(a))`, an object-like macro followed
\* by a parenthesised list; `F(a, F(b))`, two arguments for the one
\* parameter of F; `F`, no arguments for it; `foo = Q(D(ace, frag));` and
\* `Q( Y )`
MacroUses ==
    [ObjectList |-> TokenLine(Tokens(<<"Y", "(", "F", "(", "a", ")", ")">>)),
     TwoArgs |-> TokenLine(Tokens(<<"F", "(", "a", ",", " ", "F", "(", "b", ")", ")">>)),
     NoArgs |-> TokenLine(Tokens(<<"F">>)),
     QuoteDoubles |->
        TokenLine(Tokens(<<"f", "o", "o", " ", "=", " ", "Q", "(", "D", "(", "a", "c", "e",
                           ",", " ", "f", "r", "a", "g", ")", ")", ";">>)),
     QuoteSpaced |-> TokenLine(Tokens(<<"Q", "(", " ", "Y", " ", ")">>))]

\* the lines of the files
MacroLines ==
    {DirectiveLine(Directive("DefineDirective", MacroDefs[d].name, MacroDefs[d]), 0) :
        d \in DOMAIN MacroDefs}
    \cup {MacroUses[u] : u \in DOMAIN MacroUses}

NextMacro ==
    \/ \E line \in MacroLines : More(MaxMacroLines) /\ Define(line)
    \/ \E line \in MacroLines : More(MaxMacroLines) /\ Tokenline(line)
    \/ Return

SpecMacro == InitPP /\ [][NextMacro]_vars

\* the definition d was in effect when the logged line e was preprocessed
InEffect(d, e) == d.name \in DOMAIN e.defs /\ e.defs[d.name] = d

\* C14: when a macro name is defined but an invocation has another number
\* of arguments than the definition has parameters (an object-like macro
\* followed by a parenthesised list included), the body is not substituted:
\* the name is emitted literally, followed by the parenthesised text with
\* the macros in it expanded in place; preprocessing does not fail.
C14_PseudoCall ==
    /\ pp_result \in {"running", "ok"}
    /\ \A k \in 1..Len(frames[1].log) :
          LET e == frames[1].log[k] IN
          /\ e.line = MacroUses.ObjectList /\ InEffect(MacroDefs.Y, e) =>
                /\ e.emitted
                /\ e.text = IF InEffect(MacroDefs.F, e) THEN <<"Y", "(", "a", ")">>
                            ELSE <<"Y", "(", "F", "(", "a", ")", ")">>
          /\ e.line = MacroUses.TwoArgs /\ InEffect(MacroDefs.F, e) =>
                e.emitted /\ e.text = <<"F", "(", "a", ",", " ", "b", ")">>
          /\ e.line = MacroUses.NoArgs /\ InEffect(MacroDefs.F, e) =>
                e.emitted /\ e.text = <<"F">>

\* Y(F(a)) and F(a, F(b)) have been preprocessed with Y and F defined
C14_Witness ==
    /\ \E k \in 1..Len(frames[1].log) :
          /\ frames[1].log[k].line \in {MacroUses.ObjectList, MacroUses.TwoArgs}
          /\ InEffect(MacroDefs.Y, frames[1].log[k]) /\ InEffect(MacroDefs.F, frames[1].log[k])
          /\ frames[1].log[k].emitted
    /\ pp_result = "ok"

\* C15: for a macro whose body is `#p`, an invocation yields the expanded
\* argument, trimmed and wrapped in double quotes, and `##` joins the
\* expansions of its neighbours with nothing in between: with
\* `#define Q(x) #x` and `#define D(a,b) a##_##b`, the line
\* `foo = Q(D(ace, frag));` becomes `foo = "ace_frag";`.
C15_QuoteDoubles ==
    \A k \in 1..Len(frames[1].log) :
        LET e == frames[1].log[k] IN
        /\ e.line = MacroUses.QuoteDoubles /\ InEffect(MacroDefs.Q, e) /\ InEffect(MacroDefs.D, e) =>
              /\ e.emitted
              /\ e.text = <<"f", "o", "o", " ", "=", " ", QT, "a", "c", "e", "_", "f", "r",
                            "a", "g", QT, ";">>
        /\ e.line = MacroUses.QuoteSpaced /\ InEffect(MacroDefs.Q, e) =>
              /\ e.emitted
              /\ e.text = <<QT>> \o (IF InEffect(MacroDefs.Y, e) THEN <<"y">> ELSE <<"Y">>) \o <<QT>>

\* `foo = Q(D(ace, frag));` has been preprocessed with Q and D defined
C15_Witness ==
    \E k \in 1..Len(frames[1].log) :
        /\ frames[1].log[k].line = MacroUses.QuoteDoubles /\ frames[1].log[k].emitted
        /\ InEffect(MacroDefs.Q, frames[1].log[k]) /\ InEffect(MacroDefs.D, frames[1].log[k])

---------------------------------------------------------------------------
(* Compressed integers (io.rs).  A u32 is the set of the positions of its  *)
(* one bits, which keeps the 32-bit width exact; a byte of a stream is a   *)
(* number in 0..255.                                                       *)

\* the number of bits of a u32
U32Bits == 32

\* the bits of a number 0 <= n < 2^31
BitsOf(n) == {b \in 0..(U32Bits - 2) : (n \div 2^b) % 2 = 1}

\* the number whose bits are `bits`, for bits below 2^31
NumOf(bits) ==
    LET RECURSIVE NumFrom(_)
        NumFrom(b) ==
            IF b > U32Bits - 2 THEN 0
            ELSE (IF b \in bits THEN 2^b ELSE 0) + NumFrom(b + 1)
    IN  NumFrom(0)

\* temp > 0x7f
Above7f(temp) == \E b \in temp : b > 6
\* temp &= !0x7f; temp >>= 7
Shr7(temp) == {b - 7 : b \in {c \in temp : c > 6}}

RECURSIVE WriteCompressedInt(_)
\* write_compressed_int: the bytes written and the length returned
WriteCompressedInt(temp) ==
    LET Emit(byte, rest) == [bytes |-> <<byte>> \o rest.bytes, len |-> rest.len + 1]
    IN  IF Above7f(temp)
        THEN Emit(NumOf({7} \cup {b \in temp : b < 7}), WriteCompressedInt(Shr7(temp)))
        ELSE [bytes |-> <<NumOf(temp)>>, len |-> 0 + 1]

\* the number of payload bits a byte of a compressed int carries
PayloadBits == 7

\* a byte-per-step length: a mutation of compressed_int_len that steps by
\* whole bytes
RECURSIVE ByteLen(_)
ByteLen(temp) ==
    IF \E b \in temp : b > 7 THEN 1 + ByteLen({b - 8 : b \in {c \in temp : c > 7}}) ELSE 1

RECURSIVE CompressedIntLen(_)
\* compressed_int_len
CompressedIntLen(temp) ==
    IF Above7f(temp) THEN 1 + CompressedIntLen(Shr7(temp)) ELSE 1

\* read_compressed_int, from iteration i = 0 at `start`: at the end of the
\* input the loop ends with what it has; a shift by 32 or more overflows (a
\* panic in a debug build, a wrapped shift amount in a release build)
ReadCompressedInt(bytes, start) ==
    LET RECURSIVE Loop(_, _, _)
        Loop(pos, i, result) ==
            LET Or(b) == result \cup {k + i * PayloadBits : k \in {c \in b : c < 7}}
                Byte(b) ==
                    IF 7 \in b THEN Loop(pos + 1, i + 1, Or(b))
                    ELSE [st |-> "ok", v |-> Or(b), pos |-> pos + 1]
            IN  IF pos > Len(bytes) THEN [st |-> "ok", v |-> result, pos |-> pos]
                ELSE IF i * PayloadBits >= U32Bits
                THEN [st |-> "shl_overflow", v |-> result, pos |-> pos]
                ELSE Byte(BitsOf(bytes[pos]))
    IN  Loop(start, 0, {})

\* ---- the write / length / read round trip of one u32 ----

\* the inputs have at most MaxBits one bits, or are 2^k - 1, or are 300
MaxBits == 2

InitVI ==
    /\ LET RECURSIVE BitSets(_)
           BitSets(k) ==
               LET Grow(S) == S \cup {s \cup {b} : s \in S, b \in 0..(U32Bits - 1)}
               IN  IF k = 0 THEN {{}} ELSE Grow(BitSets(k - 1))
       IN  vi_x \in BitSets(MaxBits) \cup {0..k : k \in 0..(U32Bits - 1)} \cup {BitsOf(300)}
    /\ vi_bytes = <<>> /\ vi_written = 0 /\ vi_len = 0 /\ vi_read = <<>>
    /\ vi_phase = "init"
    /\ IdlePP /\ IdleRap /\ IdlePbo /\ IdleSg /\ IdleAux

WriteInt ==
    /\ vi_phase = "init"
    /\ vi_bytes' = WriteCompressedInt(vi_x).bytes
    /\ vi_written' = WriteCompressedInt(vi_x).len
    /\ vi_phase' = "written"
    /\ UNCHANGED <<vi_x, vi_len, vi_read, ppVars, rapVars, pboVars, sgVars, auxVars, fnVars>>

LenInt ==
    /\ vi_phase # "idle" /\ vi_len = 0
    /\ vi_len' = CompressedIntLen(vi_x)
    /\ UNCHANGED <<vi_x, vi_bytes, vi_written, vi_read, vi_phase, ppVars, rapVars, pboVars, sgVars, auxVars, fnVars>>

ReadInt ==
    /\ vi_phase = "written"
    /\ vi_read' = ReadCompressedInt(vi_bytes, 1)
    /\ vi_phase' = "read"
    /\ UNCHANGED <<vi_x, vi_bytes, vi_written, vi_len, ppVars, rapVars, pboVars, sgVars, auxVars, fnVars>>

NextVI == WriteInt \/ LenInt \/ ReadInt

SpecVarint == InitVI /\ [][NextVI]_vars

\* C5: for every u32 x, reading back what write_compressed_int wrote gives
\* x, and the length write_compressed_int returns is the number of bytes it
\* wrote and equals compressed_int_len(x); 300 is encoded as AC 02.
C5_VarintRoundTrip ==
    /\ vi_phase = "read" =>
          /\ vi_read.st = "ok" /\ vi_read.v = vi_x
          /\ vi_read.pos = Len(vi_bytes) + 1
    /\ vi_phase \in {"written", "read"} =>
          /\ vi_written = Len(vi_bytes)
          /\ vi_len # 0 => vi_written = vi_len
          /\ vi_x = BitsOf(300) => vi_bytes = <<172, 2>>

\* 300 has been written, measured and read back
C5_Witness ==
    /\ vi_phase = "read" /\ vi_x = BitsOf(300) /\ vi_len = 2
    /\ vi_bytes = <<172, 2>>

---------------------------------------------------------------------------
(* Little-endian scalars and C strings (byteorder, io.rs).  A string is    *)
(* the sequence of its bytes.                                              *)

\* write_u32::<LittleEndian>, for x < 2^31
WriteU32(x) == <<x % 256, (x \div 256) % 256, (x \div 65536) % 256, x \div 16777216>>
\* read_u32::<LittleEndian>, for results below 2^31
ReadU32(bytes, pos) ==
    bytes[pos] + 256 * bytes[pos + 1] + 65536 * bytes[pos + 2] + 16777216 * bytes[pos + 3]

\* write_i32::<LittleEndian>: two's complement
WriteI32(x) ==
    IF x >= 0 THEN WriteU32(x)
    ELSE [WriteU32(x + 2147483647 + 1) EXCEPT ![4] = @ + 128]
\* read_i32::<LittleEndian>
ReadI32(bytes, pos) ==
    IF bytes[pos + 3] < 128 THEN ReadU32(bytes, pos)
    ELSE ReadU32([bytes EXCEPT ![pos + 3] = @ - 128], pos) - 2147483647 - 1

\* write_f32::<LittleEndian>: an f32 is its sign bit, its 8 exponent bits
\* and its 23 mantissa bits
WriteF32(f) ==
    <<f.mant % 256, (f.mant \div 256) % 256,
      (f.mant \div 65536) + 128 * (f.exp % 2), (f.exp \div 2) + 128 * f.sign>>
\* read_f32::<LittleEndian>
ReadF32(bytes, pos) ==
    [sign |-> bytes[pos + 3] \div 128,
     exp  |-> (bytes[pos + 3] % 128) * 2 + bytes[pos + 2] \div 128,
     mant |-> bytes[pos] + 256 * bytes[pos + 1] + 65536 * (bytes[pos + 2] % 128)]

\* write_cstring
WriteCstring(str) == str \o <<0>>

\* read_cstring: the bytes up to the terminator (the first 0 byte at or
\* after pos), which is consumed; at the end of the input the string ends
\* without one
ReadCstring(bytes, pos) ==
    LET RECURSIVE CstringEnd(_)
        CstringEnd(i) ==
            IF i > Len(bytes) THEN i
            ELSE IF bytes[i] = 0 THEN i ELSE CstringEnd(i + 1)
        Upto(end) == [v |-> SubSeq(bytes, pos, end - 1),
                      pos |-> IF end > Len(bytes) THEN end ELSE end + 1]
    IN  Upto(CstringEnd(pos))

---------------------------------------------------------------------------
(* Rapified configs (config.rs).                                           *)

\* enum ConfigArrayElement and enum ConfigEntry: the variant and its value
ConfigArrayElement(t, v) == [t |-> t, v |-> v]
ConfigEntry(t, v) == [t |-> t, v |-> v]
\* struct ConfigArray
ConfigArray(is_expansion, elements) ==
    [is_expansion |-> is_expansion, elements |-> elements]
\* struct ConfigClass; entries is an Option of a sequence of <<name, entry>>
ConfigClass(parent, is_external, is_deletion, entries) ==
    [parent |-> parent, is_external |-> is_external, is_deletion |-> is_deletion,
     entries |-> entries]

RECURSIVE ElementLength(_)
\* ConfigArrayElement::rapified_length
ElementLength(e) ==
    CASE e.t = "StringElement" -> Len(e.v) + 2
      [] e.t = "FloatElement" -> 5
      [] e.t = "IntElement" -> 5
      [] e.t = "ArrayElement" ->
            1 + CompressedIntLen(BitsOf(Len(e.v.elements))) +
            SumSeq([i \in 1..Len(e.v.elements) |-> ElementLength(e.v.elements[i])])

\* a rapified_length that takes every entry for a number: C26 tells it apart
EntryLengthOfNumber(e) == 6

\* ConfigEntry::rapified_length (without the name)
EntryLength(e) ==
    CASE e.t = "StringEntry" -> Len(e.v) + 3
      [] e.t = "FloatEntry" -> 6
      [] e.t = "IntEntry" -> 6
      [] e.t = "ArrayEntry" ->
            1 + CompressedIntLen(BitsOf(Len(e.v.elements))) +
            SumSeq([i \in 1..Len(e.v.elements) |-> ElementLength(e.v.elements[i])]) +
            (IF e.v.is_expansion THEN 4 ELSE 0)
      [] e.t = "ClassEntry" -> IF e.v.is_external \/ e.v.is_deletion THEN 1 ELSE 5

RECURSIVE ClassLengthPadded(_)
\* a rapified_length that counts one byte too many for every class body
ClassLengthPadded(c) ==
    IF ~c.entries.some THEN 0
    ELSE Len(c.parent) + 2 + CompressedIntLen(BitsOf(Len(c.entries.v))) +
         SumSeq([i \in 1..Len(c.entries.v) |->
                    Len(c.entries.v[i][1]) + 1 + EntryLength(c.entries.v[i][2]) +
                    (IF c.entries.v[i][2].t = "ClassEntry"
                     THEN ClassLengthPadded(c.entries.v[i][2].v) ELSE 0)])

RECURSIVE ClassLength(_)
\* ConfigClass::rapified_length
ClassLength(c) ==
    IF ~c.entries.some THEN 0
    ELSE Len(c.parent) + 1 + CompressedIntLen(BitsOf(Len(c.entries.v))) +
         SumSeq([i \in 1..Len(c.entries.v) |->
                    Len(c.entries.v[i][1]) + 1 + EntryLength(c.entries.v[i][2]) +
                    (IF c.entries.v[i][2].t = "ClassEntry"
                     THEN ClassLength(c.entries.v[i][2].v) ELSE 0)])

\* ---- writing: a write yields the bytes, the count the code keeps of
\* ---- them (`written`) and whether it went through ----

Written(bytes, written) == [ok |-> TRUE, bytes |-> bytes, written |-> written]
\* one write after another
Then(a, b) ==
    [ok |-> a.ok /\ b.ok, bytes |-> a.bytes \o b.bytes, written |-> a.written + b.written]

\* a write into a Cursor over a zeroed buffer of `size` bytes: it fails if
\* the bytes do not fit, and leaves zeros where nothing was written
InCursor(size, w) ==
    IF ~w.ok \/ Len(w.bytes) > size THEN [ok |-> FALSE, bytes |-> <<>>, written |-> 0]
    ELSE [ok |-> TRUE, bytes |-> w.bytes \o [i \in 1..(size - Len(w.bytes)) |-> 0],
          written |-> w.written]

RECURSIVE ArrayWriteRapified(_)
\* ConfigArray::write_rapified
ArrayWriteRapified(a) ==
    LET RECURSIVE ThenAll(_)
        ThenAll(ws) ==
            IF ws = <<>> THEN Written(<<>>, 0) ELSE Then(Head(ws), ThenAll(Tail(ws)))
        Count32(w) == Written(w.bytes, w.len)
        Element(e) ==
            CASE e.t = "StringElement" -> Written(<<0>> \o WriteCstring(e.v), Len(e.v) + 2)
              [] e.t = "FloatElement" -> Written(<<1>> \o WriteF32(e.v), 5)
              [] e.t = "IntElement" -> Written(<<2>> \o WriteI32(e.v), 5)
              [] e.t = "ArrayElement" -> Then(Written(<<3>>, 1), ArrayWriteRapified(e.v))
    IN  Then(Count32(WriteCompressedInt(BitsOf(Len(a.elements)))),
             ThenAll([i \in 1..Len(a.elements) |-> Element(a.elements[i])]))

RECURSIVE ClassWriteRapified(_, _)
RECURSIVE EntriesWrite(_, _)
\* the loop over the entries in ConfigClass::write_rapified: the bytes of
\* the entries, the class bodies collected on the side, and whether the
\* assertion on the length of every entry held
EntriesWrite(entries, class_offset) ==
    LET name  == Head(entries)[1]
        entry == Head(entries)[2]
        Entry(w, body, advance) ==
            [ok |-> w.ok /\ w.written = EntryLength(entry) + Len(name) + 1,
             bytes |-> w.bytes, written |-> w.written, body |-> body, advance |-> advance]
        Plain(bytes, written) == Entry(Written(bytes, written), <<>>, 0)
        ArrayEntry(tag, w) ==
            Entry([w EXCEPT !.bytes = tag \o WriteCstring(name) \o @,
                            !.written = (Len(tag) - 1) + Len(name) + 2 + @], <<>>, 0)
        ClassEntry(w) ==
            Entry([w EXCEPT !.bytes = <<0>> \o WriteCstring(name) \o WriteU32(class_offset),
                            !.written = Len(name) + 6], w.bytes, w.written)
        This ==
            CASE entry.t = "StringEntry" ->
                    Plain(<<1, 0>> \o WriteCstring(name) \o WriteCstring(entry.v),
                          Len(name) + Len(entry.v) + 4)
              [] entry.t = "FloatEntry" ->
                    Plain(<<1, 1>> \o WriteCstring(name) \o WriteF32(entry.v), Len(name) + 7)
              [] entry.t = "IntEntry" ->
                    Plain(<<1, 2>> \o WriteCstring(name) \o WriteI32(entry.v), Len(name) + 7)
              [] entry.t = "ArrayEntry" ->
                    ArrayEntry(IF entry.v.is_expansion THEN <<5, 1, 0, 0, 0>> ELSE <<2>>,
                               ArrayWriteRapified(entry.v))
              [] entry.t = "ClassEntry" ->
                    IF entry.v.is_external \/ entry.v.is_deletion
                    THEN Plain(<<IF entry.v.is_deletion THEN 4 ELSE 3>> \o WriteCstring(name),
                               Len(name) + 2)
                    ELSE ClassEntry(InCursor(ClassLength(entry.v),
                                             ClassWriteRapified(entry.v, class_offset)))
        Both(e, r) ==
            [ok |-> e.ok /\ r.ok, bytes |-> e.bytes \o r.bytes,
             written |-> e.written + r.written, bodies |-> e.body \o r.bodies]
        AndRest(e) == Both(e, EntriesWrite(Tail(entries), class_offset + e.advance))
    IN  IF entries = <<>>
        THEN [ok |-> TRUE, bytes |-> <<>>, written |-> 0, bodies |-> <<>>]
        ELSE AndRest(This)

\* ConfigClass::write_rapified; the class is expected to have entries, and
\* the entries are expected to take entries_len bytes
ClassWriteRapified(c, offset) ==
    LET Count32(w) == Written(w.bytes, w.len)
        Start(head, entries_len) ==
            LET Whole(es) ==
                    [ok |-> head.ok /\ es.ok /\ es.written = entries_len,
                     bytes |-> head.bytes \o es.bytes \o es.bodies,
                     written |-> head.written + es.written + Len(es.bodies)]
            IN  Whole(EntriesWrite(c.entries.v, offset + head.written + entries_len))
    IN  IF ~c.entries.some THEN [ok |-> FALSE, bytes |-> <<>>, written |-> 0]
        ELSE Start(Then(Written(WriteCstring(c.parent), Len(c.parent) + 1),
                        Count32(WriteCompressedInt(BitsOf(Len(c.entries.v))))),
                   SumSeq([i \in 1..Len(c.entries.v) |->
                              Len(c.entries.v[i][1]) + 1 + EntryLength(c.entries.v[i][2])]))

\* Config::write_rapified
ConfigWriteRapified(root_body) ==
    LET File(cursor) ==
            [ok |-> cursor.ok,
             bytes |-> <<0, 114, 97, 80>> \o <<0, 0, 0, 0, 8, 0, 0, 0>> \o
                       WriteU32(16 + Len(cursor.bytes)) \o cursor.bytes \o <<0, 0, 0, 0>>]
    IN  File(InCursor(ClassLength(root_body), ClassWriteRapified(root_body, 16)))

\* ---- reading: a read yields how it ended ("ok", "err" for an Err,
\* ---- "panic", "overflow" for an exhausted call stack), the value and
\* ---- the position of the next byte (the first byte is at 1) ----

Result(st, v, pos) == [st |-> st, v |-> v, pos |-> pos]

RECURSIVE ArrayReadRapified(_, _)
RECURSIVE ElementsRead(_, _, _)
\* the loop of ConfigArray::read_rapified, with n elements to go
ElementsRead(bytes, pos, n) ==
    LET Nested(r) ==
            IF r.st = "ok" THEN Result("ok", ConfigArrayElement("ArrayElement", r.v), r.pos)
            ELSE r
        OfString(str) == Result("ok", ConfigArrayElement("StringElement", str.v), str.pos)
        Scalar(t) ==
            IF pos + 4 > Len(bytes) THEN Result("err", <<>>, pos)
            ELSE Result("ok",
                        ConfigArrayElement(t, IF t = "FloatElement" THEN ReadF32(bytes, pos + 1)
                                              ELSE ReadI32(bytes, pos + 1)),
                        pos + 5)
        This ==
            IF pos > Len(bytes) THEN Result("panic", <<>>, pos)
            ELSE CASE bytes[pos] = 0 -> OfString(ReadCstring(bytes, pos + 1))
                   [] bytes[pos] = 1 -> Scalar("FloatElement")
                   [] bytes[pos] = 2 -> Scalar("IntElement")
                   [] bytes[pos] = 3 -> Nested(ArrayReadRapified(bytes, pos + 1))
                   [] OTHER -> Result("err", <<>>, pos)
        Both(e, r) == IF r.st = "ok" THEN Result("ok", <<e.v>> \o r.v, r.pos) ELSE r
        AndRest(e) == IF e.st # "ok" THEN e ELSE Both(e, ElementsRead(bytes, e.pos, n - 1))
    IN  IF n = 0 THEN Result("ok", <<>>, pos) ELSE AndRest(This)

\* ConfigArray::read_rapified
ArrayReadRapified(bytes, pos) ==
    LET Array(r) ==
            IF r.st = "ok" THEN Result("ok", ConfigArray(FALSE, r.v), r.pos) ELSE r
        Counted(num_elements) ==
            IF num_elements.st # "ok" THEN num_elements
            ELSE Array(ElementsRead(bytes, num_elements.pos, NumOf(num_elements.v)))
    IN  Counted(ReadCompressedInt(bytes, pos))

\* the greatest depth of calls the reader is followed to
MaxNesting == 4

RECURSIVE ClassReadRapified(_, _, _, _)
RECURSIVE EntriesRead(_, _, _, _, _)
\* the loop of ConfigClass::read_rapified, with n entries to go
EntriesRead(bytes, pos, n, level, fuel) ==
    LET entry_type == bytes[pos]
        name == ReadCstring(bytes, CASE entry_type = 1 -> pos + 2
                                     [] entry_type = 5 -> pos + 5
                                     [] OTHER -> pos + 1)
        Entry(t, v, p) == Result("ok", <<name.v, ConfigEntry(t, v)>>, p)
        OfClass(r) == IF r.st = "ok" THEN Entry("ClassEntry", r.v, r.pos) ELSE r
        OfArray(r) ==
            IF r.st = "ok"
            THEN Entry("ArrayEntry", [r.v EXCEPT !.is_expansion = (entry_type = 5)], r.pos)
            ELSE r
        OfString(str) == Entry("StringEntry", str.v, str.pos)
        Scalar(t) ==
            IF name.pos + 3 > Len(bytes) THEN Result("err", <<>>, name.pos)
            ELSE Entry(t, IF t = "FloatEntry" THEN ReadF32(bytes, name.pos)
                          ELSE ReadI32(bytes, name.pos),
                       name.pos + 4)
        Variable(subtype) ==
            CASE subtype = 0 -> OfString(ReadCstring(bytes, name.pos))
              [] subtype = 1 -> Scalar("FloatEntry")
              [] subtype = 2 -> Scalar("IntEntry")
              [] OTHER -> Result("err", <<>>, pos)
        This ==
            IF pos > Len(bytes) THEN Result("panic", <<>>, pos)
            ELSE CASE entry_type = 0 ->
                        IF fuel = 0 THEN Result("overflow", <<>>, pos)
                        ELSE OfClass(ClassReadRapified(bytes, name.pos, level + 1, fuel - 1))
                   [] entry_type = 1 ->
                        IF pos + 1 > Len(bytes) THEN Result("panic", <<>>, pos)
                        ELSE Variable(bytes[pos + 1])
                   [] entry_type \in {2, 5} -> OfArray(ArrayReadRapified(bytes, name.pos))
                   \* `is_deletion: entry_type == 5`, of an entry of type 3 or 4
                   [] entry_type \in {3, 4} ->
                        Entry("ClassEntry",
                              ConfigClass(<<>>, entry_type = 3, entry_type = 5, None),
                              name.pos)
                   [] OTHER -> Result("err", <<>>, pos)
        Both(e, r) == IF r.st = "ok" THEN Result("ok", <<e.v>> \o r.v, r.pos) ELSE r
        AndRest(e) ==
            IF e.st # "ok" THEN e
            ELSE Both(e, EntriesRead(bytes, e.pos, n - 1, level, fuel))
    IN  IF n = 0 THEN Result("ok", <<>>, pos) ELSE AndRest(This)

\* ConfigClass::read_rapified: the body is at offset 16 for the root class
\* and at the offset read from the input for a nested one, after which the
\* reader returns to fp, the position after that offset
ClassReadRapified(bytes, pos, level, fuel) ==
    LET fp == pos + 4
        Body(parent) ==
            LET Class(r) ==
                    IF r.st = "ok"
                    THEN Result("ok", ConfigClass(parent.v, FALSE, FALSE, Some(r.v)),
                                IF level > 0 THEN fp ELSE r.pos)
                    ELSE r
                Counted(num_entries) ==
                    IF num_entries.st # "ok" THEN num_entries
                    ELSE Class(EntriesRead(bytes, num_entries.pos, NumOf(num_entries.v),
                                           level, fuel))
            IN  Counted(ReadCompressedInt(bytes, parent.pos))
    IN  IF level > 0 /\ pos + 3 > Len(bytes) THEN Result("err", <<>>, pos)
        ELSE Body(ReadCstring(bytes, IF level = 0 THEN 16 + 1 ELSE ReadU32(bytes, pos) + 1))

\* Config::read_rapified
ConfigReadRapified(bytes) ==
    IF Len(bytes) < 4 \/ SubSeq(bytes, 1, 4) # <<0, 114, 97, 80>>
    THEN Result("err", <<>>, 1)
    ELSE ClassReadRapified(bytes, 5, 0, MaxNesting)

\* ---- the write / read round trip of one config ----

\* the entries a class is built from: one of every kind the parser produces
EntryPool ==
    LET Class(parent, entries) ==
            ConfigEntry("ClassEntry", ConfigClass(parent, FALSE, FALSE, Some(entries)))
        Stub(is_external, is_deletion) ==
            ConfigEntry("ClassEntry", ConfigClass(<<>>, is_external, is_deletion, None))
        s  == <<<<115>>, ConfigEntry("StringEntry", <<104, 105>>)>>
        i  == <<<<105>>, ConfigEntry("IntEntry", -2)>>
        f  == <<<<102>>, ConfigEntry("FloatEntry", [sign |-> 0, exp |-> 127, mant |-> 4194304])>>
        dx == <<<<88>>, Stub(FALSE, TRUE)>>
    IN  { s, i, f,
          <<<<101>>, ConfigEntry("StringEntry", <<>>)>>,
          <<<<97>>, ConfigEntry("ArrayEntry", ConfigArray(FALSE,
                <<ConfigArrayElement("IntElement", 1),
                  ConfigArrayElement("StringElement", <<97>>),
                  ConfigArrayElement("ArrayElement", ConfigArray(FALSE,
                      <<ConfigArrayElement("FloatElement",
                                           [sign |-> 1, exp |-> 126, mant |-> 0]),
                        ConfigArrayElement("IntElement", 300)>>))>>))>>,
          <<<<97>>, ConfigEntry("ArrayEntry", ConfigArray(TRUE,
                <<ConfigArrayElement("StringElement", <<98>>)>>))>>,
          <<<<88>>, Stub(TRUE, FALSE)>>,
          dx,
          <<<<67>>, Class(<<80>>, <<i>>)>>,
          <<<<79>>, Class(<<>>, <<<<<<73>>, Class(<<>>, <<s>>)>>, f>>)>>,
          <<<<69>>, Class(<<>>, <<>>)>>,
          <<<<68>>, Class(<<80>>, <<dx, i>>)>> }

\* the root class has at most MaxEntries entries
MaxEntries == 2

InitRap ==
    /\ LET RECURSIVE EntryLists(_)
           EntryLists(n) ==
               LET Grow(S) == S \cup {Append(es, e) : es \in S, e \in EntryPool}
               IN  IF n = 0 THEN {<<>>} ELSE Grow(EntryLists(n - 1))
       IN  rap_config \in {ConfigClass(<<>>, FALSE, FALSE, Some(es)) :
                              es \in EntryLists(MaxEntries)}
    /\ rap_bytes = <<>> /\ rap_reread = <<>> /\ rap_phase = "init"
    /\ IdlePP /\ IdleVI /\ IdlePbo /\ IdleSg /\ IdleAux

\* cmd_rapify / cmd_binarize: Config::write_rapified
WriteRapified ==
    LET Out(w) ==
            /\ rap_bytes' = w.bytes
            /\ rap_phase' = IF w.ok THEN "written" ELSE "write_failed"
    IN  /\ rap_phase = "init"
        /\ Out(ConfigWriteRapified(rap_config))
        /\ UNCHANGED <<rap_config, rap_reread, ppVars, viVars, pboVars, sgVars, auxVars, fnVars>>

\* cmd_derapify: Config::read_rapified
ReadRapified ==
    /\ rap_phase = "written"
    /\ rap_reread' = ConfigReadRapified(rap_bytes)
    /\ rap_phase' = "read"
    /\ UNCHANGED <<rap_config, rap_bytes, ppVars, viVars, pboVars, sgVars, auxVars, fnVars>>

NextRap == WriteRapified \/ ReadRapified

SpecRap == InitRap /\ [][NextRap]_vars

\* C4: Config::read_rapified on the bytes Config::write_rapified produced
\* returns a tree equal to the original: the same entries in the same
\* order with the same names, kinds, flags and values.
C4_RoundTrip ==
    rap_phase = "read" => rap_reread.st = "ok" /\ rap_reread.v = rap_config

\* a config with a `delete X;` entry has been written and read back
C4_Witness ==
    /\ rap_phase = "read" /\ rap_reread.st = "ok"
    /\ \E k \in 1..Len(rap_config.entries.v) :
          /\ rap_config.entries.v[k][2].t = "ClassEntry"
          /\ rap_config.entries.v[k][2].v.is_deletion
          /\ rap_reread.v.entries.v[k][1] = rap_config.entries.v[k][1]

\* the bytes of the config whose root class has no parent and no entries,
\* with the given number in the enum offset field
EmptyConfigBytes(enum_offset) ==
    <<0, 114, 97, 80>> \o <<0, 0, 0, 0, 8, 0, 0, 0>> \o <<enum_offset, 0, 0, 0>> \o
    <<0>> \o <<0>> \o <<0, 0, 0, 0>>

\* C11 as stated: Config::write_rapified of a config whose root class has no
\* parent and no entries produces 00 72 61 50, 00 00 00 00 08 00 00 00, the
\* enum offset, 00, 00 and the trailer 00 00 00 00, the enum offset field
\* being 17.
C11_EnumOffset17 ==
    rap_phase # "init" /\ rap_config.entries.v = <<>> =>
        rap_phase # "write_failed" /\ rap_bytes = EmptyConfigBytes(17)

\* C11: Config::write_rapified of a config whose root class has no parent
\* and no entries produces 00 72 61 50, 00 00 00 00 08 00 00 00, the enum
\* offset, 00, 00 and the trailer 00 00 00 00, the enum offset field being
\* 18: the 16 bytes before the root body and the 2 bytes of the body, which
\* is the offset of the trailer.  For every config the field holds the
\* offset of the trailer.
C11_EmptyConfigBytes ==
    rap_phase # "init" =>
        /\ rap_phase # "write_failed"
        /\ rap_config.entries.v = <<>> => rap_bytes = EmptyConfigBytes(18)
        /\ ReadU32(rap_bytes, 13) = Len(rap_bytes) - 4
        /\ SubSeq(rap_bytes, Len(rap_bytes) - 3, Len(rap_bytes)) = <<0, 0, 0, 0>>

\* the config without entries has been written
C11_Witness ==
    rap_phase = "written" /\ rap_config.entries.v = <<>> /\ Len(rap_bytes) = 22

\* the class stubs among the entries of the root class, as written and as
\* read back
StubsRead(Holds(_, _)) ==
    rap_phase = "read" =>
        /\ rap_reread.st = "ok"
        /\ Len(rap_reread.v.entries.v) = Len(rap_config.entries.v)
        /\ \A k \in 1..Len(rap_config.entries.v) :
              rap_config.entries.v[k][2].t = "ClassEntry" /\
              ~rap_config.entries.v[k][2].v.entries.some =>
                  /\ rap_reread.v.entries.v[k][2].t = "ClassEntry"
                  /\ Holds(rap_config.entries.v[k][2].v, rap_reread.v.entries.v[k][2].v)

\* C12: ConfigClass::read_rapified decodes an entry with tag 3 (written for
\* an external stub) as a class stub with is_external = true and
\* is_deletion = false, and an entry with tag 4 (written for `delete X;`)
\* as a class stub with is_deletion = true.
C12_StubTags ==
    LET Holds(written, read) ==
            /\ ~read.entries.some
            /\ written.is_deletion => read.is_deletion
            /\ ~written.is_deletion => read.is_external /\ ~read.is_deletion
    IN  StubsRead(Holds)

\* an entry with tag 4 has been decoded
C12_Witness ==
    /\ rap_phase = "read" /\ rap_reread.st = "ok"
    /\ \E k \in 1..Len(rap_config.entries.v) :
          /\ rap_config.entries.v[k][2].t = "ClassEntry"
          /\ rap_config.entries.v[k][2].v.is_deletion
          /\ rap_reread.v.entries.v[k][2].t = "ClassEntry"
          /\ ~rap_reread.v.entries.v[k][2].v.entries.some

\* C13: in the bytes Config::write_rapified produces, the u32 recorded in
\* every class entry with tag 0, at any depth, is the absolute offset at
\* which the body of that class (its parent name) begins; the entries of a
\* class are contiguous, and the bodies of its nested classes follow them
\* in the order of the entries.  The bytes are walked along the config:
\* Walk gives the offset at which a class body with its nested bodies ends,
\* or -1 if the bytes are laid out otherwise.
C13_BodyOffsets ==
    LET bytes == rap_bytes
        Tag(e) ==
            CASE e.t \in {"StringEntry", "FloatEntry", "IntEntry"} -> 1
              [] e.t = "ArrayEntry" -> IF e.v.is_expansion THEN 5 ELSE 2
              [] e.t = "ClassEntry" ->
                    IF e.v.entries.some THEN 0 ELSE IF e.v.is_deletion THEN 4 ELSE 3
        NameAt(e) == CASE Tag(e) = 1 -> 2 [] Tag(e) = 5 -> 5 [] OTHER -> 1
        RECURSIVE Walk(_, _)
        Walk(c, off) ==
            LET es == c.entries.v
                parent == ReadCstring(bytes, off + 1)
                count == ReadCompressedInt(bytes, parent.pos)
                RECURSIVE Start(_)
                \* the offset of entry k, the entries being contiguous
                Start(k) ==
                    IF k = 1 THEN count.pos - 1
                    ELSE Start(k - 1) + Len(es[k - 1][1]) + 1 + EntryLength(es[k - 1][2])
                name(k) == ReadCstring(bytes, Start(k) + NameAt(es[k][2]) + 1)
                EntryAt(k) ==
                    /\ Start(k) + 1 <= Len(bytes)
                    /\ bytes[Start(k) + 1] = Tag(es[k][2])
                    /\ name(k).v = es[k][1]
                RECURSIVE Bodies(_, _)
                \* the bodies of the classes among the entries k.., the
                \* first of them expected at `expected`
                Bodies(k, expected) ==
                    LET recorded == ReadU32(bytes, name(k).pos)
                        Next(end) == IF end = -1 THEN -1 ELSE Bodies(k + 1, end)
                    IN  IF k > Len(es) THEN expected
                        ELSE IF Tag(es[k][2]) # 0 THEN Bodies(k + 1, expected)
                        ELSE IF recorded # expected THEN -1
                        ELSE Next(Walk(es[k][2].v, recorded))
            IN  IF parent.v # c.parent \/ count.st # "ok" THEN -1
                ELSE IF NumOf(count.v) # Len(es) THEN -1
                ELSE IF \E k \in 1..Len(es) : ~EntryAt(k) THEN -1
                ELSE Bodies(1, Start(Len(es) + 1))
    IN  rap_phase # "init" =>
            rap_phase # "write_failed" /\ Walk(rap_config, 16) = Len(bytes) - 4

\* a config with a class nested in a class, followed by a second class,
\* has been written
C13_Witness ==
    /\ rap_phase = "written"
    /\ Len(rap_config.entries.v) = 2
    /\ \A k \in 1..2 :
          /\ rap_config.entries.v[k][2].t = "ClassEntry"
          /\ rap_config.entries.v[k][2].v.entries.some
    /\ \E j \in 1..Len(rap_config.entries.v[1][2].v.entries.v) :
          /\ rap_config.entries.v[1][2].v.entries.v[j][2].t = "ClassEntry"
          /\ rap_config.entries.v[1][2].v.entries.v[j][2].v.entries.some
    /\ ReadU32(rap_bytes, 13) = Len(rap_bytes) - 4

\* ---- reading a file that was not written by the writer ----

\* the bytes that follow the 16 bytes of the header at most
MaxBody == 8

\* cmd_derapify on a file that starts with the magic and the header and
\* goes on with bytes of the values 0, 1 and 16
InitDerap ==
    /\ rap_bytes \in {<<0, 114, 97, 80, 0, 0, 0, 0, 8, 0, 0, 0, 0, 0, 0, 0>> \o body :
                          body \in UNION {[1..k -> {0, 1, 16}] : k \in 0..MaxBody}}
    /\ rap_config = <<>> /\ rap_reread = <<>> /\ rap_phase = "written"
    /\ IdlePP /\ IdleVI /\ IdlePbo /\ IdleSg /\ IdleAux

SpecDerap == InitDerap /\ [][ReadRapified]_vars

\* C30: Config::read_rapified terminates, with a config or with an error, on
\* every finite byte sequence that starts with the magic \0raP, inputs in
\* which the body offset of a class entry points at the body of that class
\* or of an enclosing class included.
C30_ReadTerminates ==
    rap_phase = "read" => rap_reread.st \in {"ok", "err"}

\* a file has been read whose root class holds one class entry, the body
\* offset of which is 16, the offset of the body of the root class
C30_Witness ==
    /\ rap_phase = "read"
    /\ SubSeq(rap_bytes, 17, Len(rap_bytes)) = <<0, 1, 0, 0, 16, 0, 0, 0>>

\* C26: for every class tree in which only external and deletion stubs have
\* no entries, the two assertions of ConfigClass::write_rapified hold: the
\* bytes counted for every entry are the length of its name + 1 +
\* ConfigEntry::rapified_length, and the value write_rapified returns for a
\* class (its entries and all nested class bodies) is
\* ConfigClass::rapified_length, which is the number of bytes it wrote: the
\* buffers of that size are filled exactly.
C26_WriteAssertions ==
    rap_phase # "init" =>
        LET RECURSIVE Classes(_)
            Nested(c, i) ==
                IF c.entries.v[i][2].t = "ClassEntry" /\ c.entries.v[i][2].v.entries.some
                THEN Classes(c.entries.v[i][2].v) ELSE {}
            Classes(c) == {c} \cup UNION {Nested(c, i) : i \in 1..Len(c.entries.v)}
            EntryExact(e) ==
                LET w == EntriesWrite(<<e>>, 16)
                IN  w.ok /\ w.written = Len(e[1]) + 1 + EntryLength(e[2])
                         /\ Len(w.bytes) = w.written
            ClassExact(c) ==
                LET w == ClassWriteRapified(c, 16)
                IN  w.ok /\ w.written = ClassLength(c) /\ Len(w.bytes) = ClassLength(c)
        IN  /\ rap_phase # "write_failed"
            /\ Len(rap_bytes) = ClassLength(rap_config) + 20
            /\ \A c \in Classes(rap_config) :
                  /\ ClassExact(c)
                  /\ \A i \in 1..Len(c.entries.v) : EntryExact(c.entries.v[i])

\* a config has been written whose root holds an expansion array and a
\* class that holds a class and a number
C26_Witness ==
    /\ rap_phase = "written"
    /\ Len(rap_config.entries.v) = 2
    /\ rap_config.entries.v[1][2].t = "ArrayEntry" /\ rap_config.entries.v[1][2].v.is_expansion
    /\ rap_config.entries.v[2][2].t = "ClassEntry"
    /\ rap_config.entries.v[2][2].v.entries.some
    /\ Len(rap_config.entries.v[2][2].v.entries.v) = 2
    /\ rap_config.entries.v[2][2].v.entries.v[1][2].t = "ClassEntry"

---------------------------------------------------------------------------
(* PBO archives (pbo.rs).  A byte of an archive is a record.  A plain byte *)
(* has its value in b.  SHA-1 is taken to be collision-free: a digest is   *)
(* 20 bytes that stand for the data hashed; the first of them carries the  *)
(* data in d, and b numbers them -1..-20, their values being unknown.      *)

Plain(ints) == [i \in 1..Len(ints) |-> [b |-> ints[i], d |-> <<>>]]
\* Hasher::finish after the updates that make up `data`
Sha1(data) == [k \in 1..20 |-> [b |-> -k, d |-> IF k = 1 THEN data ELSE <<>>]]

\* String::as_bytes of an ASCII string, given by its characters
Str(chars) ==
    LET lower == <<"a", "b", "c", "d", "e", "f", "g", "h", "i", "j", "k", "l", "m",
                   "n", "o", "p", "q", "r", "s", "t", "u", "v", "w", "x", "y", "z">>
        upper == <<"A", "B", "C", "D", "E", "F", "G", "H", "I", "J", "K", "L", "M",
                   "N", "O", "P", "Q", "R", "S", "T", "U", "V", "W", "X", "Y", "Z">>
        Ord(c) ==
            CASE \E i \in 1..26 : lower[i] = c -> 96 + (CHOOSE i \in 1..26 : lower[i] = c)
              [] \E i \in 1..26 : upper[i] = c -> 64 + (CHOOSE i \in 1..26 : upper[i] = c)
              [] c = "3" -> 51
              [] c = "." -> 46
              [] c = "\\" -> 92
    IN  [i \in 1..Len(chars) |-> Ord(chars[i])]

\* a case-preserving comparison key: a mutation of str::to_lowercase
KeepCase(name) == name
\* str::to_lowercase, for ASCII
ToLowercase(name) ==
    [i \in 1..Len(name) |-> IF name[i] \in 65..90 THEN name[i] + 32 ELSE name[i]]

\* String::cmp = Less: the bytewise lexicographic order
Less(a, b) ==
    \E i \in 1..Len(b) :
        /\ \A j \in 1..(i - 1) : j <= Len(a) /\ a[j] = b[j]
        /\ i > Len(a) \/ a[i] < b[i]

\* sort_by on the lower-cased names: a stable sort
SortedByLowercase(files) ==
    LET key(i) == ToLowercase(files[i][1])
        Rank(i) ==
            Cardinality({j \in 1..Len(files) :
                            Less(key(j), key(i)) \/ (j < i /\ key(j) = key(i))}) + 1
    IN  [r \in 1..Len(files) |-> files[CHOOSE i \in 1..Len(files) : Rank(i) = r]]

\* struct PBO; files is the LinkedHashMap as the sequence of its
\* <<name, data>> in insertion order, header_extensions a function
PBO(files, header_extensions, checksum) ==
    [files |-> files, header_extensions |-> header_extensions, checksum |-> checksum]

\* struct PBOHeader
PBOHeader(filename, packing_method, original_size, reserved, timestamp, data_size) ==
    [filename |-> filename, packing_method |-> packing_method,
     original_size |-> original_size, reserved |-> reserved, timestamp |-> timestamp,
     data_size |-> data_size]

\* PBOHeader::write
HeaderWrite(h) ==
    WriteCstring(h.filename) \o WriteU32(h.packing_method) \o WriteU32(h.original_size) \o
    WriteU32(h.reserved) \o WriteU32(h.timestamp) \o WriteU32(h.data_size)

\* the packing method of the header that carries the extensions, "Vers"
Vers == 1449489011

\* the data a mutation of PBO::write would hash: the trailing zero as well
HashedWithZero(headers, payloads) == headers \o payloads \o Plain(<<0>>)
\* the data PBO::write feeds to the hasher
Hashed(headers, payloads) == headers \o payloads

\* PBO::write; `order` is the order in which the HashMap iterates over the
\* extensions other than prefix
PboWrite(files, header_extensions, order) ==
    LET ext_header == PBOHeader(<<>>, Vers, 0, 0, 0, 0)
        prefix == Str(<<"p", "r", "e", "f", "i", "x">>)
        Out(headers, payloads) ==
            headers \o payloads \o Plain(<<0>>) \o Sha1(Hashed(headers, payloads))
        Sorted(files_sorted) ==
            Out(Plain(HeaderWrite(ext_header) \o
                      (IF prefix \in DOMAIN header_extensions
                       THEN prefix \o <<0>> \o WriteCstring(header_extensions[prefix])
                       ELSE <<>>) \o
                      Flatten([i \in 1..Len(order) |->
                                  WriteCstring(order[i]) \o
                                  WriteCstring(header_extensions[order[i]])]) \o
                      WriteCstring(<<>>) \o
                      Flatten([i \in 1..Len(files_sorted) |->
                                  HeaderWrite(PBOHeader(files_sorted[i][1], 0,
                                                        Len(files_sorted[i][2]), 0, 0,
                                                        Len(files_sorted[i][2])))]) \o
                      HeaderWrite([ext_header EXCEPT !.packing_method = 0])),
                Flatten([i \in 1..Len(files_sorted) |-> files_sorted[i][2]]))
    IN  Sorted(SortedByLowercase(files))

\* PBO::read.  The result is "ok" with the PBO, "err" or "panic"; it is
\* "digest" if the headers read run into the bytes of a digest, on whose
\* unknown values the outcome then depends.  `upto` is how far the headers
\* were read.
PboRead(stream) ==
    LET v == [i \in 1..Len(stream) |-> stream[i].b]
        Failed(st, upto) ==
            [st |-> st, files |-> <<>>, header_extensions |-> <<>>, checksum |-> None,
             upto |-> upto]
        Insert(files, name, data) ==
            SelectSeq(files, LAMBDA f : f[1] # name) \o <<<<name, data>>>>
        Sum(pos, checksum_at, files, ext) ==
            IF checksum_at + 19 > Len(stream) THEN Failed("err", pos - 1)
            ELSE [st |-> "ok", files |-> files, header_extensions |-> ext,
                  checksum |-> Some(SubSeq(stream, checksum_at, checksum_at + 19)),
                  upto |-> pos - 1]
        RECURSIVE Files(_, _, _, _, _)
        Files(start, pos, headers, files, ext) ==
            IF headers = <<>> THEN Sum(start, pos + 1, files, ext)
            ELSE IF pos + Head(headers).data_size - 1 > Len(stream)
            THEN Failed("err", start - 1)
            ELSE Files(start, pos + Head(headers).data_size, Tail(headers),
                       Insert(files, Head(headers).filename,
                              SubSeq(stream, pos, pos + Head(headers).data_size - 1)),
                       ext)
        RECURSIVE Extensions(_, _)
        Extensions(pos, ext) ==
            LET Pair(s, value) ==
                    Extensions(value.pos,
                               [k \in DOMAIN ext \cup {s.v} |->
                                   IF k = s.v THEN value.v ELSE ext[k]])
                Key(s) ==
                    IF s.v = <<>> THEN [ext |-> ext, pos |-> s.pos]
                    ELSE Pair(s, ReadCstring(v, s.pos))
            IN  Key(ReadCstring(v, pos))
        RECURSIVE Headers(_, _, _, _)
        Headers(pos, first, headers, ext) ==
            LET After(e) == Headers(e.pos, FALSE, headers, e.ext)
                Header(filename, at) ==
                    IF at + 19 > Len(v) THEN Failed("err", Len(v))
                    ELSE IF ReadU32(v, at) = Vers
                    THEN (IF ~first THEN Failed("panic", at + 19)
                          ELSE After(Extensions(at + 20, ext)))
                    ELSE IF filename = <<>> THEN Files(at + 20, at + 20, headers, <<>>, ext)
                    ELSE Headers(at + 20, FALSE,
                                 Append(headers,
                                        PBOHeader(filename, ReadU32(v, at), ReadU32(v, at + 4),
                                                  ReadU32(v, at + 8), ReadU32(v, at + 12),
                                                  ReadU32(v, at + 16))),
                                 ext)
                Named(name) == Header(name.v, name.pos)
            IN  Named(ReadCstring(v, pos))
        Checked(r) ==
            IF \E i \in 1..r.upto : i <= Len(v) /\ v[i] < 0
            THEN [Failed("digest", r.upto) EXCEPT !.upto = 0]
            ELSE [r EXCEPT !.upto = 0]
    IN  Checked(Headers(1, TRUE, <<>>, <<>>))

\* ---- writing and reading one archive ----

\* the files the archives are made of
FilePool ==
    { <<Str(<<"Z", "u", "l", "u", ".", "t", "x", "t">>), Plain(<<1>>)>>,
      <<Str(<<"a", "l", "p", "h", "a", ".", "t", "x", "t">>), Plain(<<2, 3>>)>>,
      <<Str(<<"M", "i", "k", "e", ".", "t", "x", "t">>), Plain(<<4>>)>>,
      <<Str(<<"a", ".", "p", "a", "a">>), Plain(<<5>>)>>,
      <<Str(<<"b", ".", "s", "q", "f">>), Plain(<<6, 7>>)>> }

\* the header extensions of the archives
ExtensionPool ==
    LET prefix == Str(<<"p", "r", "e", "f", "i", "x">>)
    IN  { <<>>,
          prefix :> Str(<<"p">>),
          Str(<<"k">>) :> Str(<<"v">>),
          (prefix :> Str(<<"p", "\\">>)) @@ (Str(<<"k">>) :> <<>>),
          (Str(<<"k">>) :> Str(<<"v">>)) @@ (Str(<<"j">>) :> Str(<<"w">>)),
          <<>> :> Str(<<"x">>) }

\* an archive has at most MaxFiles files
MaxFiles == 3

\* the sequences of at most n different members of a set
Arrangements(S, n) ==
    {fs \in UNION {[1..k -> S] : k \in 0..n} :
        \A i, j \in 1..Len(fs) : i # j => fs[i] # fs[j]}

InitPbo ==
    /\ pbo \in {PBO(fs, ext, None) : fs \in Arrangements(FilePool, MaxFiles),
                                     ext \in ExtensionPool}
    /\ pbo_bytes = <<>> /\ pbo_reread = <<>> /\ pbo_phase = "init"
    /\ IdlePP /\ IdleVI /\ IdleRap /\ IdleSg /\ IdleAux

\* cmd_pack / cmd_build: PBO::write
Write ==
    /\ pbo_phase = "init"
    /\ \E order \in Arrangements(DOMAIN pbo.header_extensions \
                                    {Str(<<"p", "r", "e", "f", "i", "x">>)}, 2) :
          /\ Len(order) = Cardinality(DOMAIN pbo.header_extensions \
                                         {Str(<<"p", "r", "e", "f", "i", "x">>)})
          /\ pbo_bytes' = PboWrite(pbo.files, pbo.header_extensions, order)
    /\ pbo_phase' = "written"
    /\ UNCHANGED <<pbo, pbo_reread, ppVars, viVars, rapVars, sgVars, auxVars, fnVars>>

\* cmd_unpack / cmd_sign / cmd_verify: PBO::read
Read ==
    /\ pbo_phase = "written"
    /\ pbo_reread' = PboRead(pbo_bytes)
    /\ pbo_phase' = "read"
    /\ UNCHANGED <<pbo, pbo_bytes, ppVars, viVars, rapVars, sgVars, auxVars, fnVars>>

NextPbo == Write \/ Read

SpecPbo == InitPbo /\ [][NextPbo]_vars

C9_RoundTrip ==
    pbo_phase = "read" =>
        /\ pbo_reread.st = "ok"
        /\ pbo_reread.header_extensions = pbo.header_extensions
        /\ pbo_reread.files = SortedByLowercase(pbo.files)
        /\ pbo_reread.checksum =
               Some(SubSeq(pbo_bytes, Len(pbo_bytes) - 19, Len(pbo_bytes)))

\* an archive with a header extension whose key is empty has been written
\* and read
C9_Witness ==
    /\ pbo_phase = "read" /\ <<>> \in DOMAIN pbo.header_extensions
    /\ pbo.files # <<>>

\* C10: the headers and the payloads are written in one and the same order,
\* ascending by lower-cased file name, whatever the insertion order: the
\* names read back ascend, and every name comes with its own payload.
C10_SortedOrder ==
    pbo_phase = "read" /\ <<>> \notin DOMAIN pbo.header_extensions =>
        LET Lower(name) ==
                [i \in 1..Len(name) |->
                    IF name[i] \in 65..90 THEN name[i] + 32 ELSE name[i]]
            read == pbo_reread.files
        IN  /\ pbo_reread.st = "ok"
            /\ Len(read) = Len(pbo.files)
            /\ \A i \in 1..Len(read) : \E k \in 1..Len(pbo.files) : pbo.files[k] = read[i]
            /\ \A i \in 1..(Len(read) - 1) : Less(Lower(read[i][1]), Lower(read[i + 1][1]))

\* Zulu.txt, alpha.txt, Mike.txt, inserted in this order, have been written
\* as alpha.txt, Mike.txt, Zulu.txt
C10_Witness ==
    /\ pbo_phase = "read" /\ pbo_reread.st = "ok"
    /\ [i \in 1..Len(pbo.files) |-> pbo.files[i][1]] =
           <<Str(<<"Z", "u", "l", "u", ".", "t", "x", "t">>),
             Str(<<"a", "l", "p", "h", "a", ".", "t", "x", "t">>),
             Str(<<"M", "i", "k", "e", ".", "t", "x", "t">>)>>
    /\ [i \in 1..Len(pbo_reread.files) |-> pbo_reread.files[i][1]] =
           <<Str(<<"a", "l", "p", "h", "a", ".", "t", "x", "t">>),
             Str(<<"M", "i", "k", "e", ".", "t", "x", "t">>),
             Str(<<"Z", "u", "l", "u", ".", "t", "x", "t">>)>>

---------------------------------------------------------------------------
(* BI signatures (sign.rs).  RSA is symbolic: a BigNum is its big-endian   *)
(* bytes without leading zeros together with the exponentiations applied   *)
(* to it; raising to d and to e modulo the n of one key pair cancel on a   *)
(* number below n.                                                         *)

\* filehash, with the extensions it skips for V2 and the ones it takes for
\* V3
FileHash(p, version) ==
    LET SkippedV2 ==
            { Str(<<"p", "a", "a">>), Str(<<"j", "p", "g">>),
              Str(<<"p", "3", "d">>), Str(<<"t", "g", "a">>),
              Str(<<"r", "v", "m", "a", "t">>), Str(<<"l", "i", "p">>),
              Str(<<"o", "g", "g">>), Str(<<"w", "s", "s">>),
              Str(<<"p", "n", "g">>), Str(<<"r", "t", "m">>),
              Str(<<"p", "a", "c">>), Str(<<"f", "x", "y">>), Str(<<"w", "r", "p">>) }
        HashedV3 ==
            { Str(<<"s", "q", "f">>), Str(<<"i", "n", "c">>),
              Str(<<"b", "i", "k", "b">>), Str(<<"e", "x", "t">>),
              Str(<<"f", "s", "m">>), Str(<<"s", "q", "m">>),
              Str(<<"h", "p", "p">>), Str(<<"c", "f", "g">>),
              Str(<<"s", "q", "s">>), Str(<<"h">>) }
        Ext(name) ==
            LET dots == {i \in 1..Len(name) : name[i] = 46}
            IN  IF dots = {} THEN name
                ELSE SubSeq(name, (CHOOSE i \in dots : \A j \in dots : j <= i) + 1, Len(name))
        Taken(name) ==
            IF version = 2 THEN Ext(name) \notin SkippedV2 ELSE Ext(name) \in HashedV3
        nothing == \A i \in 1..Len(p.files) : ~Taken(p.files[i][1])
    IN  Sha1(IF nothing
             THEN Plain(IF version = 2 THEN Str(<<"n", "o", "t", "h", "i", "n", "g">>)
                        ELSE Str(<<"g", "n", "i", "h", "t", "o", "n">>))
             ELSE Flatten([i \in 1..Len(p.files) |->
                              IF Taken(p.files[i][1]) THEN p.files[i][2] ELSE <<>>]))

\* BigNum::from_slice
BigNum(bytes) ==
    LET RECURSIVE Stripped(_)
        Stripped(bs) ==
            IF bs # <<>> /\ Head(bs).b = 0 THEN Stripped(Tail(bs)) ELSE bs
    IN  [v |-> Stripped(bytes), exps |-> <<>>]

\* what a computation that panicked leaves in place of a BigNum
Panicked == [v |-> <<>>, exps |-> <<<<"panic", [of |-> "", bytes |-> 0]>>>>]

\* the bytes pad_hash puts around the hash
PadBytes == 36

\* a padding without the bytes of FF: C22 tells it apart
PadHashUnpadded(hash, size) ==
    BigNum(Plain(<<0, 1, 0, 48, 33, 48, 9, 6, 5, 43, 14, 3, 2, 26, 5, 0, 4, 20>>) \o hash)

\* pad_hash; size - 36 on a usize underflows for a size below 36: a panic
\* in a debug build, an impossible resize and so a panic in a release build
PadHash(hash, size) ==
    LET Resize(vec, n, x) ==
            IF n <= Len(vec) THEN SubSeq(vec, 1, n)
            ELSE vec \o [i \in 1..(n - Len(vec)) |-> x]
    IN  IF size < PadBytes THEN Panicked
        ELSE BigNum(Plain(Resize(<<0, 1>>, size - PadBytes, 255) \o
                          <<0, 48, 33, 48, 9, 6, 5, 43>> \o
                          <<14, 3, 2, 26, 5, 0, 4, 20>>) \o hash)

\* generate_hashes, with namehash
GenerateHashes(p, version, length) ==
    LET NameHash(q) ==
            LET Names(files_sorted) ==
                    Flatten([i \in 1..Len(files_sorted) |->
                                IF Len(files_sorted[i][2]) = 0 THEN <<>>
                                ELSE ToLowercase(files_sorted[i][1])])
            IN  Sha1(Plain(Names(SortedByLowercase(q.files))))
        prefix == Str(<<"p", "r", "e", "f", "i", "x">>)
        Slash(value) ==
            Plain(IF value # <<>> /\ value[Len(value)] = 92 THEN value
                  ELSE value \o <<92>>)
        tail == NameHash(p) \o
                (IF prefix \in DOMAIN p.header_extensions
                 THEN Slash(p.header_extensions[prefix]) ELSE <<>>)
    IN  IF ~p.checksum.some THEN <<Panicked, Panicked, Panicked>>
        ELSE <<PadHash(p.checksum.v, length \div 8),
               PadHash(Sha1(p.checksum.v \o tail), length \div 8),
               PadHash(Sha1(FileHash(p, version) \o tail), length \div 8)>>

\* an exponentiation that is never undone: a mutation of mod_exp
ModExpOneWay(base, exponent, n) == [base EXCEPT !.exps = Append(@, <<exponent, n>>)]

\* BigNum::mod_exp with the private or the public exponent of a key pair
ModExp(base, exponent, n) ==
    LET last == base.exps[Len(base.exps)]
    IN  IF base = Panicked THEN Panicked
        ELSE IF /\ base.exps # <<>> /\ last[2] = n /\ last[1] # exponent
                /\ Len(base.v) < n.bytes
        THEN [base EXCEPT !.exps = SubSeq(@, 1, Len(@) - 1)]
        ELSE [base EXCEPT !.exps = Append(@, <<exponent, n>>)]

\* BIPrivateKey::generate: n is a modulus of `length` bits, d the private
\* and exponent the public exponent of the pair
BIPrivateKey(name, length) ==
    [name |-> name, length |-> length, exponent |-> "e", d |-> "d",
     n |-> [of |-> name, bytes |-> length \div 8]]

\* BIPrivateKey::to_public_key
ToPublicKey(key) ==
    [name |-> key.name, length |-> key.length, exponent |-> key.exponent, n |-> key.n]

\* BIPrivateKey::sign
SignPbo(key, p, version) ==
    LET Signed(hashes) ==
            [version |-> version, name |-> key.name, length |-> key.length,
             exponent |-> key.exponent, n |-> key.n,
             sig1 |-> ModExp(hashes[1], key.d, key.n),
             sig2 |-> ModExp(hashes[2], key.d, key.n),
             sig3 |-> ModExp(hashes[3], key.d, key.n)]
    IN  Signed(GenerateHashes(p, version, key.length))

\* BIPublicKey::verify
VerifyPbo(public, p, signature) ==
    LET Compared(real) ==
            IF /\ real[1] = ModExp(signature.sig1, public.exponent, public.n)
               /\ real[2] = ModExp(signature.sig2, public.exponent, public.n)
               /\ real[3] = ModExp(signature.sig3, public.exponent, public.n)
            THEN "Ok" ELSE "Err"
    IN  Compared(GenerateHashes(p, signature.version, public.length))

\* ---- signing an archive, verifying it, and verifying it after a change
\* ---- to one bit of a payload ----

\* a signed archive has at most MaxSigned files
MaxSigned == 2

InitSign ==
    /\ pbo \in {PBO(fs, ext, None) :
                   fs \in Arrangements(FilePool, MaxSigned),
                   ext \in {e \in ExtensionPool : DOMAIN e \subseteq
                                                     {Str(<<"p", "r", "e", "f", "i", "x">>)}}}
    /\ pbo_bytes = <<>> /\ pbo_reread = <<>> /\ pbo_phase = "init"
    /\ sg_key \in {BIPrivateKey("key", length) : length \in {1024, 288, 256}}
    /\ sg_version \in {2, 3}
    /\ sg_signature = [st |-> "none", sig |-> <<>>] /\ sg_verdict = "none"
    /\ sg_tampered = <<>> /\ sg_tverdict = "none"
    /\ IdlePP /\ IdleVI /\ IdleRap /\ IdleAux

\* cmd_sign: the archive read is signed, unless sign panics
Sign ==
    LET Out(signature) ==
            sg_signature' = IF signature.sig1 = Panicked THEN [st |-> "panic", sig |-> <<>>]
                            ELSE [st |-> "signed", sig |-> signature]
    IN  /\ pbo_phase = "read" /\ pbo_reread.st = "ok" /\ sg_signature.st = "none"
        /\ Out(SignPbo(sg_key, pbo_reread, sg_version))
        /\ UNCHANGED <<sg_key, sg_version, sg_verdict, sg_tampered, sg_tverdict,
                       ppVars, viVars, rapVars, pboVars, auxVars, fnVars>>

\* cmd_verify on the archive that was signed
Verify ==
    /\ sg_signature.st = "signed" /\ sg_verdict = "none"
    /\ sg_verdict' = VerifyPbo(ToPublicKey(sg_key), pbo_reread, sg_signature.sig)
    /\ UNCHANGED <<sg_key, sg_version, sg_signature, sg_tampered, sg_tverdict,
                   ppVars, viVars, rapVars, pboVars, auxVars, fnVars>>

\* one bit of the byte at position i, a byte of a payload of the verified
\* archive, is changed; all other bytes stay
Tamper ==
    LET size == SumSeq([k \in 1..Len(pbo_reread.files) |-> Len(pbo_reread.files[k][2])])
        Flip(byte) == IF byte % 2 = 0 THEN byte + 1 ELSE byte - 1
    IN  /\ sg_verdict = "Ok" /\ sg_tampered = <<>>
        /\ \E i \in (Len(pbo_bytes) - 20 - size)..(Len(pbo_bytes) - 21) :
              sg_tampered' = [pbo_bytes EXCEPT ![i].b = Flip(@)]
        /\ UNCHANGED <<sg_key, sg_version, sg_signature, sg_verdict, sg_tverdict,
                       ppVars, viVars, rapVars, pboVars, auxVars, fnVars>>

\* cmd_verify on the changed archive: PBO::read, which is expected to
\* succeed, then verify
VerifyTampered ==
    LET Verdict(p) ==
            IF p.st # "ok" THEN "panic"
            ELSE VerifyPbo(ToPublicKey(sg_key), p, sg_signature.sig)
    IN  /\ sg_tampered # <<>> /\ sg_tverdict = "none"
        /\ sg_tverdict' = Verdict(PboRead(sg_tampered))
        /\ UNCHANGED <<sg_key, sg_version, sg_signature, sg_verdict, sg_tampered,
                       ppVars, viVars, rapVars, pboVars, auxVars, fnVars>>

NextSign == Write \/ Read \/ Sign \/ Verify \/ Tamper \/ VerifyTampered

SpecSign == InitSign /\ [][NextSign]_vars

\* C6: if a signature verifies for an archive, then reading and verifying
\* any archive obtained from it by changing a bit inside a file payload
\* returns an error, for every file extension and for V2 and V3.
C6_TamperDetected == sg_tverdict # "Ok"

\* a payload of an archive whose signature verified has been changed, and
\* the changed archive has been verified
C6_Witness ==
    /\ sg_verdict = "Ok" /\ sg_tverdict # "none"
    /\ pbo_reread.files # <<>> /\ sg_tampered # pbo_bytes

\* C7: as claimed, for any RSA key pair verify(pbo, sign(pbo, version))
\* returns Ok.
C7_AnyKeyVerifies ==
    /\ sg_signature.st # "panic"
    /\ sg_verdict \in {"none", "Ok"}

\* C7, as the code has it: for any RSA key pair of at least 288 bits (36
\* bytes, the room pad_hash needs) verify(pbo, sign(pbo, version)) returns
\* Ok, each padded hash raised to d and then to e being the padded hash
\* recomputed; with a shorter key sign panics in pad_hash.
C7_SignThenVerify ==
    /\ sg_verdict \in {"none", "Ok"}
    /\ sg_signature.st # "none" =>
          (sg_signature.st = "panic" <=> sg_key.length \div 8 < PadBytes)
    /\ sg_verdict = "Ok" /\ sg_tampered = <<>> =>
          LET sigs == <<sg_signature.sig.sig1, sg_signature.sig.sig2, sg_signature.sig.sig3>>
              Cancel(real) ==
                  \A k \in 1..3 :
                     /\ sigs[k] = ModExp(real[k], sg_key.d, sg_key.n)
                     /\ ModExp(sigs[k], sg_key.exponent, sg_key.n) = real[k]
                     /\ Len(real[k].v) = sg_key.length \div 8 - 1
          IN  Cancel(GenerateHashes(pbo_reread, sg_version, sg_key.length))

\* an archive with files has been signed with a key of 288 bits, the
\* shortest that pad_hash has room for, and verified
C7_Witness ==
    /\ sg_verdict = "Ok" /\ pbo_reread.files # <<>>
    /\ sg_key.length = 288

\* the byte string of the claim C22 for a key of key_bytes bytes: 00 01, ff
\* bytes of FF, the SHA-1 algorithm identifier, the hash
PaddedBlock(ff, hash) ==
    Plain(<<0, 1>> \o [i \in 1..ff |-> 255] \o
          <<0, 48, 33, 48, 9, 6, 5, 43, 14, 3, 2, 26, 5, 0, 4, 20>>) \o hash

\* C22 as it is stated: the first padded hash of a signature is the
\* big-endian integer of 00 01, key_bytes - 36 bytes of FF, the algorithm
\* identifier and the 20 hash bytes, a byte string that is key_bytes long.
C22_Padding36 ==
    sg_signature.st = "signed" =>
        LET key_bytes == sg_key.length \div 8
            block == PaddedBlock(key_bytes - 36, pbo_reread.checksum.v)
        IN  /\ Len(block) = key_bytes
            /\ sg_signature.sig.sig1.v = Tail(block)

\* C22: for a key of key_bytes >= 38 bytes every padded hash of a signature
\* is the big-endian integer of a byte string that is exactly key_bytes
\* long: 00 01, then key_bytes - 38 bytes of FF, then 00 30 21 30 09 06 05
\* 2B 0E 03 02 1A 05 00 04 14, then the 20 hash bytes (the first hash is the
\* checksum of the archive; as an integer the string has no leading 00).
C22_Padding ==
    sg_signature.st = "signed" /\ sg_key.length \div 8 >= 38 =>
        LET key_bytes == sg_key.length \div 8
            sig == sg_signature.sig
            Padded(num, hash) ==
                /\ Len(PaddedBlock(key_bytes - 38, hash)) = key_bytes
                /\ num.v = Tail(PaddedBlock(key_bytes - 38, hash))
            Digest(num) == SubSeq(num.v, Len(num.v) - 19, Len(num.v))
        IN  /\ Padded(sig.sig1, pbo_reread.checksum.v)
            /\ Padded(sig.sig2, Digest(sig.sig2))
            /\ Padded(sig.sig3, Digest(sig.sig3))
            /\ Len(pbo_reread.checksum.v) = 20
            /\ \A k \in 1..20 : Digest(sig.sig2)[k].b = -k /\ Digest(sig.sig3)[k].b = -k

\* an archive has been signed with a key of 1024 bits
C22_Witness ==
    /\ sg_signature.st = "signed" /\ sg_key.length = 1024
    /\ Len(sg_signature.sig.sig1.v) = 127
    /\ sg_signature.sig.sig1.v[2].b = 255

---------------------------------------------------------------------------
(* Warnings (error.rs).  WARNINGS_RAISED is a map from names to counts; a   *)
(* name that is absent is read as 0, so the map is a function on all names *)
(* (the map that was never created is the one that is 0 everywhere).  What *)
(* is printed to stderr is recorded as the number of warnings printed for  *)
(* every name and as the number every line of the summary reports.         *)

\* pub static mut WARNINGS_MAXIMUM: u32 = 10
WARNINGS_MAXIMUM == 10

\* a limit that lets one warning more through: C18 tells it apart
SuppressedLate(raised) == raised > WARNINGS_MAXIMUM

\* `raised >= &WARNINGS_MAXIMUM`
Suppressed(raised) == raised >= WARNINGS_MAXIMUM

\* the calls of warning() with one name that a run makes at most
MaxWarningCalls == 12

\* main: WARNINGS_MUTED has been set from the -w flags, nothing is raised
InitWarn ==
    LET names == {"non-windows-binarization", "p3d-dependency-not-found"} IN
    /\ warnings_muted \in SUBSET names
    /\ warnings_raised = [n \in names |-> 0]
    /\ warn_calls = [n \in names |-> 0]
    /\ warn_printed = [n \in names \cup {""} |-> 0]
    /\ warn_summary = [n \in names |-> 0]
    /\ warn_phase = "running"
    /\ bin_dirs = {} /\ bin_tempdirs = <<>> /\ bin_results = <<>> /\ fs_files = <<>>
    /\ IdlePP /\ IdleVI /\ IdleRap /\ IdlePbo /\ IdleSg /\ IdleFn

\* warning(msg, name, location), name being Some(name) or None (name = "")
Warning(name) ==
    LET raised == warnings_raised[name] IN
    /\ warn_phase = "running"
    /\ IF name = "" THEN
           /\ warn_printed[""] < MaxWarningCalls
           /\ warn_printed' = [warn_printed EXCEPT ![""] = @ + 1]
           /\ UNCHANGED <<warnings_raised, warn_calls>>
       ELSE
           /\ warn_calls[name] < MaxWarningCalls
           /\ warn_calls' = [warn_calls EXCEPT ![name] = @ + 1]
           /\ warnings_raised' = [warnings_raised EXCEPT ![name] = raised + 1]
           /\ warn_printed' =
                 IF Suppressed(raised) \/ name \in warnings_muted THEN warn_printed
                 ELSE [warn_printed EXCEPT ![name] = @ + 1]
    /\ UNCHANGED <<warnings_muted, warn_summary, warn_phase, bin_dirs, bin_tempdirs,
                   bin_results, fs_files, ppVars, viVars, rapVars, pboVars, sgVars,
                   fnVars>>

\* print_warning_summary, at the end of main
PrintWarningSummary ==
    /\ warn_phase = "running"
    /\ warn_summary' =
          [name \in DOMAIN warnings_raised |->
              IF name \in warnings_muted THEN 0
              ELSE IF warnings_raised[name] <= WARNINGS_MAXIMUM THEN 0
              ELSE warnings_raised[name] - WARNINGS_MAXIMUM]
    /\ warn_phase' = "done"
    /\ UNCHANGED <<warnings_raised, warnings_muted, warn_calls, warn_printed, bin_dirs,
                   bin_tempdirs, bin_results, fs_files, ppVars, viVars, rapVars, pboVars, sgVars,
                   fnVars>>

NextWarn ==
    \/ \E name \in DOMAIN warn_printed : Warning(name)
    \/ PrintWarningSummary

SpecWarn == InitWarn /\ [][NextWarn]_vars

\* C18: after the muted set has been initialised, for every name that is
\* not muted at most WARNINGS_MAXIMUM warnings of that name are printed
\* (the first ones), every call is counted, and the summary reports for
\* the name exactly calls - WARNINGS_MAXIMUM suppressed warnings if that
\* number is positive and nothing otherwise; muted names are never printed
\* and never summarised.
C18_RateLimit ==
    \A name \in DOMAIN warn_calls :
        LET calls == warn_calls[name]
            excess == calls - WARNINGS_MAXIMUM
        IN  /\ warnings_raised[name] = calls
            /\ name \notin warnings_muted =>
                  /\ warn_printed[name] <= WARNINGS_MAXIMUM
                  /\ warn_printed[name] = IF excess > 0 THEN WARNINGS_MAXIMUM ELSE calls
                  /\ warn_phase = "done" =>
                        warn_summary[name] = IF excess > 0 THEN excess ELSE 0
            /\ name \in warnings_muted =>
                  warn_printed[name] = 0 /\ warn_summary[name] = 0

\* the summary has been printed after more than WARNINGS_MAXIMUM warnings of
\* a muted name and of a name that is not muted
C18_Witness ==
    /\ warn_phase = "done"
    /\ \E m \in warnings_muted : warn_calls[m] > WARNINGS_MAXIMUM
    /\ \E n \in DOMAIN warn_calls \ warnings_muted :
          warn_calls[n] = WARNINGS_MAXIMUM + 2 /\ warn_summary[n] = 2

---------------------------------------------------------------------------
(* The binarizer shim (binarize.rs).  A call of binarize is one step; how  *)
(* its environment answers (the platform, the registry, the file system,   *)
(* binarize.exe) decides where it returns.  The temporary directories of   *)
(* one file name are told apart by the number at their end.                *)

\* the calls of binarize a run makes at most
MaxBinarize == 2

InitBin ==
    /\ bin_dirs = {} /\ bin_tempdirs = <<>> /\ bin_results = <<>> /\ fs_files = <<>>
    /\ warnings_raised = <<>> /\ warnings_muted = {} /\ warn_calls = <<>>
    /\ warn_printed = <<>> /\ warn_summary = <<>> /\ warn_phase = "idle"
    /\ IdlePP /\ IdleVI /\ IdleRap /\ IdlePbo /\ IdleSg /\ IdleFn

\* binarize(input).  It returns before it creates the directory if the
\* platform is not Windows, binarize.exe is not found or does not exist, or
\* the directory cannot be created; after that it returns an error if
\* binarize.exe cannot be started, exits with a code other than 0 or is
\* killed by a signal, if its output cannot be opened or read, or if the
\* directory cannot be removed; else it removes the directory and returns
\* the output.  create_temp_directory takes the first i for which
\* armake_<name>_<i> does not exist.
Binarize(outcome) ==
    LET CreateTempDirectory(dirs) ==
            CHOOSE i \in 0..Cardinality(dirs) :
                i \notin dirs /\ \A j \in 0..(i - 1) : j \in dirs
        tempdir == CreateTempDirectory(bin_dirs)
        created == outcome \notin {"not_windows", "not_in_registry", "exe_missing",
                                   "create_failed"}
    IN  /\ Len(bin_results) < MaxBinarize
        /\ bin_results' = Append(bin_results, outcome)
        /\ bin_tempdirs' = Append(bin_tempdirs, IF created THEN tempdir ELSE -1)
        /\ bin_dirs' = IF created /\ outcome # "ok" THEN bin_dirs \cup {tempdir} ELSE bin_dirs
        /\ UNCHANGED <<warnings_raised, warnings_muted, warn_calls, warn_printed,
                       warn_summary, warn_phase, fs_files, ppVars, viVars, rapVars, pboVars, sgVars,
                   fnVars>>

NextBin ==
    \E outcome \in {"not_windows", "not_in_registry", "exe_missing", "create_failed",
                     "spawn_failed", "exit_code", "signal", "open_failed", "read_failed",
                     "remove_failed", "ok"} : Binarize(outcome)

SpecBin == InitBin /\ [][NextBin]_vars

\* C19: every temporary directory binarize creates is removed before
\* binarize returns, on the success path and on every error path that
\* follows its creation.  The call looked at is the last one made.
C19_TempDirRemoved ==
    bin_results # <<>> /\ bin_tempdirs[Len(bin_tempdirs)] # -1 =>
        bin_tempdirs[Len(bin_tempdirs)] \notin bin_dirs

\* binarize has returned an error after binarize.exe exited with a code
\* other than 0, the directory having been created
C19_Witness ==
    /\ bin_results # <<>>
    /\ bin_results[Len(bin_results)] = "exit_code"
    /\ bin_tempdirs[Len(bin_tempdirs)] # -1

---------------------------------------------------------------------------
(* The exclude patterns of a PBO (io.rs).  A string is the sequence of its *)
(* characters, which are ASCII, so that a character is a byte; a call      *)
(* returns "true" or "false", or it panics.                                *)

\* matches_glob
RECURSIVE MatchesGlob(_, _)
MatchesGlob(s, pattern) ==
    LET Stars == {k \in 1..Len(pattern) : pattern[k] = "*"}
        \* pattern.find('*'), a position counted from 0
        index == (CHOOSE k \in Stars : \A j \in Stars : k <= j) - 1
        rest  == SubSeq(pattern, index + 2, Len(pattern))
        \* for i in (index+1)..(s.len()-1)
        RECURSIVE Loop(_)
        Loop(i) ==
            IF i >= Len(s) - 1 THEN "false"
            ELSE LET r == MatchesGlob(SubSeq(s, i + 1, Len(s)), rest)
                 IN  IF r = "false" THEN Loop(i + 1) ELSE r
    IN  IF Stars = {} THEN (IF s = pattern THEN "true" ELSE "false")
        \* s[..index] of a shorter s is out of range
        ELSE IF index > Len(s) THEN "panic"
        ELSE IF SubSeq(s, 1, index) # SubSeq(pattern, 1, index) THEN "false"
        \* s.len() - 1 of an empty s: the subtraction overflows in a debug
        \* build, s[1..] is out of range in a release build
        ELSE IF Len(s) = 0 THEN "panic"
        ELSE Loop(index + 1)

\* file_allowed
RECURSIVE FileAllowed(_, _)
FileAllowed(name, exclude_patterns) ==
    IF exclude_patterns = <<>> THEN "true"
    ELSE LET r == MatchesGlob(name, Head(exclude_patterns))
         IN  IF r = "true" THEN "false"
             ELSE IF r = "panic" THEN "panic"
             ELSE FileAllowed(name, Tail(exclude_patterns))

\* the characters a name has at most
MaxName == 3
\* the characters a pattern has at most
MaxPattern == 3
\* the exclude patterns given at most
MaxPatterns == 2

\* PBO::from_directory has the name of a file and the exclude patterns
InitGlob ==
    LET Strings(chars, n) == UNION {[1..k -> chars] : k \in 0..n} IN
    /\ glob_name \in Strings({"a", "b"}, MaxName)
    /\ glob_patterns \in UNION {[1..k -> Strings({"a", "b", "*"}, MaxPattern)] :
                                    k \in 0..MaxPatterns}
    /\ glob_allowed = "none"
    /\ bom_input = <<>> /\ bom_result = "none" /\ bom_output = <<>>
    /\ loc_preprocessed = <<>> /\ loc_line_origins = <<>> /\ loc_warning = <<>>
    /\ loc_result = "none" /\ loc_location = <<>>
    /\ IdlePP /\ IdleVI /\ IdleRap /\ IdlePbo /\ IdleSg
    /\ warnings_raised = <<>> /\ warnings_muted = {} /\ warn_calls = <<>>
    /\ warn_printed = <<>> /\ warn_summary = <<>> /\ warn_phase = "idle"
    /\ bin_dirs = {} /\ bin_tempdirs = <<>> /\ bin_results = <<>> /\ fs_files = <<>>

\* PBO::from_directory: `if !file_allowed(&name, &exclude_patterns)`
NextGlob ==
    /\ glob_allowed = "none"
    /\ glob_allowed' = FileAllowed(glob_name, glob_patterns)
    /\ UNCHANGED <<glob_name, glob_patterns, bom_input, bom_result, bom_output,
                   loc_preprocessed, loc_line_origins, loc_warning, loc_result,
                   loc_location, ppVars, viVars, rapVars, pboVars, sgVars, auxVars>>

SpecGlob == InitGlob /\ [][NextGlob]_vars

\* glob semantics: `*` matches any run of characters, the empty one
\* included, and every other character matches itself
RECURSIVE Glob(_, _)
Glob(s, pattern) ==
    IF pattern = <<>> THEN s = <<>>
    ELSE IF Head(pattern) = "*" THEN
        \E k \in 0..Len(s) : Glob(SubSeq(s, k + 1, Len(s)), Tail(pattern))
    ELSE s # <<>> /\ Head(s) = Head(pattern) /\ Glob(Tail(s), Tail(pattern))

\* C23: file_allowed(name, patterns) returns false exactly when name matches
\* at least one of the patterns under glob semantics, and no call of
\* matches_glob panics, whatever the name and the pattern (names shorter
\* than the literal prefix of the pattern and patterns that end in `*`
\* included).
C23_GlobSemantics ==
    glob_allowed # "none" =>
        /\ glob_allowed # "panic"
        /\ glob_allowed = "false" <=>
              \E k \in 1..Len(glob_patterns) : Glob(glob_name, glob_patterns[k])

\* file_allowed has allowed the file `a` although the pattern `a*` excludes
\* it
C23_Witness ==
    /\ glob_name = <<"a">> /\ glob_patterns = << <<"a", "*">> >>
    /\ glob_allowed = "true"

---------------------------------------------------------------------------
(* The start of preprocess (preprocess.rs): the byte-order mark.  A String *)
(* is the sequence of the bytes of its UTF-8 encoding.                     *)

\* the characters an input has at most
MaxChars == 3

\* preprocess is called with a String of the characters a, e with acute,
\* the euro sign and U+FEFF
InitBom ==
    LET Utf8(c) == CASE c = "a" -> <<97>>
                     [] c = "e'" -> <<195, 169>>
                     [] c = "euro" -> <<226, 130, 172>>
                     [] c = "FEFF" -> <<239, 187, 191>>
        Chars == UNION {[1..k -> {"a", "e'", "euro", "FEFF"}] : k \in 0..MaxChars}
    IN  /\ bom_input \in {Flatten([i \in 1..Len(cs) |-> Utf8(cs[i])]) : cs \in Chars}
        /\ bom_result = "none" /\ bom_output = <<>>
        /\ glob_name = <<>> /\ glob_patterns = <<>> /\ glob_allowed = "none"
        /\ loc_preprocessed = <<>> /\ loc_line_origins = <<>> /\ loc_warning = <<>>
        /\ loc_result = "none" /\ loc_location = <<>>
        /\ IdlePP /\ IdleVI /\ IdleRap /\ IdlePbo /\ IdleSg
        /\ warnings_raised = <<>> /\ warnings_muted = {} /\ warn_calls = <<>>
        /\ warn_printed = <<>> /\ warn_summary = <<>> /\ warn_phase = "idle"
        /\ bin_dirs = {} /\ bin_tempdirs = <<>> /\ bin_results = <<>> /\ fs_files = <<>>

\* preprocess, up to the call of preprocess_rec: `input[..3]` panics unless
\* 3 is a character boundary of the input (the start of a character or the
\* end of the String)
NextBom ==
    LET \* str::is_char_boundary
        IsCharBoundary(index) ==
            \/ index = 0
            \/ index = Len(bom_input)
            \/ index < Len(bom_input) /\ bom_input[index + 1] \notin 128..191
    IN  /\ bom_result = "none"
        /\ IF ~IsCharBoundary(3) THEN
               /\ bom_result' = "panic"
               /\ UNCHANGED bom_output
           ELSE
               /\ bom_result' = "ok"
               /\ bom_output' = IF SubSeq(bom_input, 1, 3) = <<239, 187, 191>>
                                 THEN SubSeq(bom_input, 4, Len(bom_input))
                                 ELSE bom_input
        /\ UNCHANGED <<bom_input, glob_name, glob_patterns, glob_allowed,
                       loc_preprocessed, loc_line_origins, loc_warning, loc_result,
                       loc_location, ppVars, viVars, rapVars, pboVars, sgVars, auxVars>>

SpecBom == InitBom /\ [][NextBom]_vars

\* C24: preprocess removes a leading UTF-8 byte-order mark (EF BB BF) and
\* otherwise hands the input on unchanged, for every input string: the
\* empty string, strings shorter than three bytes and strings whose third
\* byte lies inside a multi-byte character included.
C24_BomStripped ==
    bom_result # "none" =>
        /\ bom_result = "ok"
        /\ bom_output =
              IF Len(bom_input) >= 3 /\ SubSeq(bom_input, 1, 3) = <<239, 187, 191>>
              THEN SubSeq(bom_input, 4, Len(bom_input))
              ELSE bom_input

\* preprocess has been called with the empty string
C24_Witness ==
    bom_input = <<>> /\ bom_result # "none"

---------------------------------------------------------------------------
(* The location of a parser warning (Config::read).  The preprocessed text *)
(* is a sequence of characters in which every output line ends with LF and *)
(* has its entry in line_origins; the parser has raised a warning at a     *)
(* byte offset of the text.                                                *)

\* the output lines the preprocessed text has at most
MaxOutLines == 2
\* the greatest line number an entry of line_origins holds
MaxLineno == 3

\* Config::read after preprocess and config_grammar::config: a text of
\* lines that are empty or hold one character, their origins, and a warning
InitLoc ==
    LET Texts(n) == [1..n -> {<<LF>>, <<"x", LF>>}] IN
    /\ \E n \in 1..MaxOutLines :
          /\ loc_preprocessed \in {Flatten(t) : t \in Texts(n)}
          /\ loc_line_origins \in [1..n -> (1..MaxLineno) \X {0, 1}]
    /\ loc_warning \in [offset : 0..(2 * MaxOutLines - 1), suppressed : BOOLEAN]
    /\ loc_warning.offset < Len(loc_preprocessed)
    /\ loc_result = "none" /\ loc_location = None
    /\ glob_name = <<>> /\ glob_patterns = <<>> /\ glob_allowed = "none"
    /\ bom_input = <<>> /\ bom_result = "none" /\ bom_output = <<>>
    /\ IdlePP /\ IdleVI /\ IdleRap /\ IdlePbo /\ IdleSg
    /\ warnings_raised = <<>> /\ warnings_muted = {} /\ warn_calls = <<>>
    /\ warn_printed = <<>> /\ warn_summary = <<>> /\ warn_phase = "idle"
    /\ bin_dirs = {} /\ bin_tempdirs = <<>> /\ bin_results = <<>> /\ fs_files = <<>>

\* Config::read, the body of `for w in warnings`: line is the number of LF
\* before the offset; min(line, len) - 1 on a usize underflows for 0 (a
\* panic in a debug build, an index out of range in a release build)
NextLoc ==
    LET line  == Count(SubSeq(loc_preprocessed, 1, loc_warning.offset), LF)
        index == IF line <= Len(loc_line_origins) THEN line ELSE Len(loc_line_origins)
        entry == loc_line_origins[index]
    IN  /\ loc_result = "none"
        /\ IF loc_warning.suppressed THEN
               /\ loc_result' = "ok"
               /\ loc_location' = None
           ELSE IF index = 0 THEN
               /\ loc_result' = "panic"
               /\ UNCHANGED loc_location
           ELSE
               /\ loc_result' = "ok"
               /\ loc_location' = Some(<<entry[2], entry[1] + 1>>)
        /\ UNCHANGED <<loc_preprocessed, loc_line_origins, loc_warning,
                       glob_name, glob_patterns, glob_allowed, bom_input, bom_result,
                       bom_output, ppVars, viVars, rapVars, pboVars, sgVars, auxVars>>

SpecLoc == InitLoc /\ [][NextLoc]_vars

\* C27: for every parser warning (that is not suppressed) whose offset lies
\* in the preprocessed text, on its first line included, Config::read
\* reports as location the file and the line number of the entry of
\* line_origins that belongs to the output line holding the offset, and it
\* never indexes outside line_origins.
C27_WarningLocation ==
    loc_result # "none" /\ ~loc_warning.suppressed =>
        LET line  == Count(SubSeq(loc_preprocessed, 1, loc_warning.offset), LF)
            entry == loc_line_origins[line + 1]
        IN  /\ loc_result = "ok"
            /\ loc_location = Some(<<entry[2], entry[1]>>)

\* the location of a warning on the first line of the text has been asked
\* for
C27_Witness ==
    /\ loc_result # "none" /\ ~loc_warning.suppressed
    /\ loc_warning.offset = 0

=============================================================================
